---- MODULE Spec2Model ----
(***************************************************************************)
(* Model of node-typescript-resolver: the resolve / resolveSync loader     *)
(* hooks of src/loader.ts, the TypeScriptResolver pool of src/resolver.ts  *)
(* and the resolution engine (oxc-resolver) they drive.                    *)
(*                                                                         *)
(* Strings whose contents the code inspects (specifiers, paths, URLs) are  *)
(* sequences of one-character strings; strings that are only compared      *)
(* (error codes, formats, condition names) are TLA+ strings.               *)
(***************************************************************************)
EXTENDS Integers, Sequences, FiniteSets, TLC

(* ------------------------------------------------------------------ *)
(* JavaScript string primitives                                        *)
(* ------------------------------------------------------------------ *)

\* The JavaScript value undefined, where a string is expected.
undefined == <<"undefined">>

StartsWith(s, p) == Len(p) <= Len(s) /\ SubSeq(s, 1, Len(p)) = p

EndsWith(s, p) == Len(p) <= Len(s) /\ SubSeq(s, Len(s) - Len(p) + 1, Len(s)) = p

Includes(s, p) == \E i \in 1..(Len(s) - Len(p) + 1) : SubSeq(s, i, i + Len(p) - 1) = p

\* s.slice(n)
Slice(s, n) == SubSeq(s, n + 1, Len(s))

\* s.indexOf(c) for a single character, 0-based, -1 when absent
IndexOf(s, c) ==
  IF \E i \in 1..Len(s) : s[i] = c
  THEN (CHOOSE i \in 1..Len(s) : s[i] = c /\ \A j \in 1..(i - 1) : s[j] # c) - 1
  ELSE -1

\* s.lastIndexOf(c) for a single character, 0-based, -1 when absent
LastIndexOf(s, c) ==
  IF \E i \in 1..Len(s) : s[i] = c
  THEN (CHOOSE i \in 1..Len(s) : s[i] = c /\ \A j \in (i + 1)..Len(s) : s[j] # c) - 1
  ELSE -1

\* The one element of a singleton set: Only({ e(x) : x \in {v} }) is e(v),
\* with v evaluated once.
Only(S) == CHOOSE x \in S : TRUE

\* conditions.join(","): condition names are TLA+ strings
RECURSIVE Join(_)
Join(conds) ==
  IF Len(conds) = 0 THEN ""
  ELSE IF Len(conds) = 1 THEN conds[1]
  ELSE conds[1] \o "," \o Join(Tail(conds))

FilePrefix == <<"f","i","l","e",":","/","/">>
NodePrefix == <<"n","o","d","e",":">>
HttpPrefix == <<"h","t","t","p",":","/","/">>
HttpsPrefix == <<"h","t","t","p","s",":","/","/">>
DataPrefix == <<"d","a","t","a",":">>
ExtJson == <<".","j","s","o","n">>
ExtWasm == <<".","w","a","s","m">>
ExtMts == <<".","m","t","s">>
ExtCts == <<".","c","t","s">>
ExtDts == <<".","d",".","t","s">>
NodeModulesSeg == <<"/","n","o","d","e","_","m","o","d","u","l","e","s","/">>
EmptyModuleUrl == <<"d","a","t","a",":","t","e","x","t","/","j","a","v","a","s","c","r","i","p","t",",">>
Pct20 == <<"%","2","0">>
Pct2F == <<"%","2","F">>

(* ------------------------------------------------------------------ *)
(* node:path and node:url                                              *)
(* ------------------------------------------------------------------ *)

\* path with its trailing slashes removed (the root keeps its slash)
RECURSIVE StripTrailingSlashes(_)
StripTrailingSlashes(p) ==
  IF Len(p) > 1 /\ p[Len(p)] = "/" THEN StripTrailingSlashes(SubSeq(p, 1, Len(p) - 1))
  ELSE p

\* path.basename
basename(p) ==
  LET q == StripTrailingSlashes(p)
  IN IF q = <<"/">> THEN <<>> ELSE Slice(q, LastIndexOf(q, "/") + 1)

\* path.dirname
dirname(p) ==
  LET q == StripTrailingSlashes(p)
      i == LastIndexOf(q, "/")
  IN IF i = -1 THEN <<".">>
     ELSE IF i = 0 THEN <<"/">>
     ELSE StripTrailingSlashes(SubSeq(q, 1, i))

\* percent-encoding of a path for a file URL: a space becomes %20
RECURSIVE EncodePath(_)
EncodePath(p) ==
  IF Len(p) = 0 THEN <<>>
  ELSE (IF Head(p) = " " THEN Pct20 ELSE <<Head(p)>>) \o EncodePath(Tail(p))

\* decodeURIComponent of a URL pathname: %20 becomes a space
RECURSIVE DecodePath(_)
DecodePath(u) ==
  IF Len(u) = 0 THEN <<>>
  ELSE IF StartsWith(u, Pct20) THEN <<" ">> \o DecodePath(Slice(u, 3))
  ELSE <<Head(u)>> \o DecodePath(Tail(u))

\* url.pathToFileURL(path).href
pathToFileURL(p) == FilePrefix \o EncodePath(p)

\* url.fileURLToPath throws for a URL with a host (POSIX) and for an
\* encoded slash in the pathname
fileURLToPathThrows(u) ==
  LET rest == Slice(u, Len(FilePrefix))
  IN \/ ~StartsWith(u, FilePrefix)
     \/ ~StartsWith(rest, <<"/">>)
     \/ Includes(rest, Pct2F)

\* url.fileURLToPath, where it does not throw
fileURLToPath(u) == DecodePath(Slice(u, Len(FilePrefix)))

(* ------------------------------------------------------------------ *)
(* The resolution engine (oxc-resolver's ResolverFactory)              *)
(* ------------------------------------------------------------------ *)

\* The JavaScript value null, where a path is expected.
null == <<"null">>

ExtTs == <<".","t","s">>
ExtTsx == <<".","t","s","x">>
ExtJs == <<".","j","s">>
ExtJsx == <<".","j","s","x">>
ExtMjs == <<".","m","j","s">>
ExtCjs == <<".","c","j","s">>

\* baseOptions.extensions
extensions == <<ExtTs, ExtTsx, ExtJs, ExtJsx, ExtMjs, ExtCjs, ExtJson>>

\* baseOptions.extensionAlias: the extensions tried in place of a written one
extensionAlias(ext) ==
  IF ext = ExtJs THEN <<ExtTs, ExtTsx, ExtJs>>
  ELSE IF ext = ExtMjs THEN <<ExtMts, ExtMjs>>
  ELSE IF ext = ExtCjs THEN <<ExtCts, ExtCjs>>
  ELSE <<>>

\* baseOptions.conditionNames
DefaultConditions == <<"node", "import">>

\* this.baseOptions, the options every instance is created from
baseOptions == [conditionNames |-> DefaultConditions, extensions |-> extensions]

\* The project directory, which is also the process's working directory.
Root == <<"/","p">>
Cwd == Root

F_main == <<"/","p","/","s","r","c","/","m","a","i","n",".","t","s">>
F_helper == <<"/","p","/","l","i","b","/","h","e","l","p","e","r",".","t","s">>
F_module_ts == <<"/","p","/","s","r","c","/","m","o","d","u","l","e",".","t","s">>
F_module_js == <<"/","p","/","s","r","c","/","m","o","d","u","l","e",".","j","s">>
F_data == <<"/","p","/","d","a","t","a",".","j","s","o","n">>
F_wasm == <<"/","p","/","s","r","c","/","m",".","w","a","s","m">>
F_mts == <<"/","p","/","s","r","c","/","e",".","m","t","s">>
F_cts == <<"/","p","/","s","r","c","/","c",".","c","t","s">>
F_dts == <<"/","p","/","s","r","c","/","t",".","d",".","t","s">>
F_tf == <<"/","p","/","n","o","d","e","_","m","o","d","u","l","e","s","/","t","f","/","i",".","d",".","t","s">>
F_sp == <<"/","p","/","a"," ","b",".","t","s">>

\* The files on disk.
Files == {F_main, F_helper, F_module_ts, F_module_js, F_data, F_wasm, F_mts,
          F_cts, F_dts, F_tf, F_sp}

P_lib == <<"@","l","i","b","/","*">>
R_lib == <<"l","i","b","/","*">>
S_utils == <<"@","u","t","i","l","s">>
R_utils == <<"l","i","b","/","h","e","l","p","e","r",".","t","s">>
S_data == <<"@","d","a","t","a">>
R_data == <<"d","a","t","a",".","j","s","o","n">>

\* The alias table of /p/tsconfig.json: baseUrl "." and compilerOptions.paths
AliasTable ==
  [baseDirectory |-> Root,
   patterns |-> << [pattern |-> P_lib, replacements |-> <<R_lib>>],
                   [pattern |-> S_utils, replacements |-> <<R_utils>>],
                   [pattern |-> S_data, replacements |-> <<R_data>>] >>]

S_tf == <<"t","f">>
T_tf == <<"i",".","d",".","t","s">>

\* The installed packages of /p/node_modules with the exports of their
\* package.json: "tf" is a type-only package.
Packages == { [name |-> S_tf, exports |-> << [condition |-> "types", target |-> T_tf] >>] }

\* the text before and after the wildcard of an alias pattern
patternPrefix(pattern) == SubSeq(pattern, 1, IndexOf(pattern, "*"))

patternSuffix(pattern) == Slice(pattern, IndexOf(pattern, "*") + 1)

\* matchWildcard without the length check: prefix and suffix may overlap
matchWildcardOverlapping(pattern, specifier) ==
  /\ StartsWith(specifier, patternPrefix(pattern))
  /\ EndsWith(specifier, patternSuffix(pattern))

\* One wildcard: the specifier starts with the prefix, ends with the suffix
\* and is long enough for the two not to overlap.
matchWildcard(pattern, specifier) ==
  /\ Len(specifier) >= Len(patternPrefix(pattern)) + Len(patternSuffix(pattern))
  /\ StartsWith(specifier, patternPrefix(pattern))
  /\ EndsWith(specifier, patternSuffix(pattern))

\* matchPattern where a pattern without wildcard matches as a prefix
matchPatternByPrefix(pattern, specifier) ==
  IF IndexOf(pattern, "*") = -1 THEN StartsWith(specifier, pattern)
  ELSE matchWildcard(pattern, specifier)

\* Does the alias pattern match the specifier?
matchPattern(pattern, specifier) ==
  IF IndexOf(pattern, "*") = -1 THEN pattern = specifier
  ELSE matchWildcard(pattern, specifier)

\* The wildcard capture of a matching pattern (empty for an exact pattern).
capture(pattern, specifier) ==
  IF IndexOf(pattern, "*") = -1 THEN <<>>
  ELSE SubSeq(specifier, Len(patternPrefix(pattern)) + 1,
              Len(specifier) - Len(patternSuffix(pattern)))

\* The replacement template with the capture at its wildcard.
substitute(template, cap) ==
  IF IndexOf(template, "*") = -1 THEN template
  ELSE patternPrefix(template) \o cap \o patternSuffix(template)

\* path.join(dir, relative) for a relative path without dot segments
joinPath(dir, rel) ==
  (IF EndsWith(dir, <<"/">>) THEN dir ELSE dir \o <<"/">>) \o rel

\* The first of the candidate paths that is a file, or null.
RECURSIVE firstExisting(_, _)
firstExisting(files, candidates) ==
  IF Len(candidates) = 0 THEN null
  ELSE IF Head(candidates) \in files THEN Head(candidates)
  ELSE firstExisting(files, Tail(candidates))

\* The written extension of a path, if it is one with an extension alias.
aliasedExtension(path) ==
  IF EndsWith(path, ExtJs) THEN ExtJs
  ELSE IF EndsWith(path, ExtMjs) THEN ExtMjs
  ELSE IF EndsWith(path, ExtCjs) THEN ExtCjs
  ELSE <<>>

\* A path as a file: the extension alias of its written extension, the path
\* itself, then the path with each extension in try order.
resolveAsFile(files, exts, path) ==
  LET ext == aliasedExtension(path)
      stem == SubSeq(path, 1, Len(path) - Len(ext))
      aliased == [i \in 1..Len(extensionAlias(ext)) |-> stem \o extensionAlias(ext)[i]]
      appended == [i \in 1..Len(exts) |-> path \o exts[i]]
  IN firstExisting(files, aliased \o <<path>> \o appended)

\* tryReplacements preferring the later replacements: the last that resolves
RECURSIVE tryReplacementsLast(_, _, _, _, _)
tryReplacementsLast(files, exts, base, replacements, cap) ==
  IF Len(replacements) = 0 THEN null
  ELSE LET later == tryReplacementsLast(files, exts, base, Tail(replacements), cap)
       IN IF later # null THEN later
          ELSE resolveAsFile(files, exts, joinPath(base, substitute(Head(replacements), cap)))

\* The first replacement of a matching pattern that resolves to a file.
RECURSIVE tryReplacements(_, _, _, _, _)
tryReplacements(files, exts, base, replacements, cap) ==
  IF Len(replacements) = 0 THEN null
  ELSE LET r == resolveAsFile(files, exts, joinPath(base, substitute(Head(replacements), cap)))
       IN IF r # null THEN r ELSE tryReplacements(files, exts, base, Tail(replacements), cap)

\* resolveAlias going on to the later patterns when every replacement of a
\* matching pattern failed
RECURSIVE resolveAliasScansOn(_, _, _, _, _)
resolveAliasScansOn(files, exts, base, patterns, specifier) ==
  IF Len(patterns) = 0 THEN null
  ELSE LET r == IF matchPattern(Head(patterns).pattern, specifier)
                THEN tryReplacements(files, exts, base, Head(patterns).replacements,
                                     capture(Head(patterns).pattern, specifier))
                ELSE null
       IN IF r # null THEN r
          ELSE resolveAliasScansOn(files, exts, base, Tail(patterns), specifier)

\* The first pattern that matches wins; its replacements are tried in order.
RECURSIVE resolveAlias(_, _, _, _, _)
resolveAlias(files, exts, base, patterns, specifier) ==
  IF Len(patterns) = 0 THEN null
  ELSE IF matchPattern(Head(patterns).pattern, specifier)
       THEN tryReplacements(files, exts, base, Head(patterns).replacements,
                            capture(Head(patterns).pattern, specifier))
  ELSE resolveAlias(files, exts, base, Tail(patterns), specifier)

\* The target of the first exports entry whose condition is active.
RECURSIVE exportsTarget(_, _)
exportsTarget(exports, conditionNames) ==
  IF Len(exports) = 0 THEN null
  ELSE IF \E i \in 1..Len(conditionNames) : conditionNames[i] = Head(exports).condition
       THEN Head(exports).target
  ELSE exportsTarget(Tail(exports), conditionNames)

\* A bare specifier as an installed package, through its exports.
resolvePackage(files, conditionNames, specifier) ==
  IF \E pkg \in Packages : pkg.name = specifier
  THEN LET pkg == CHOOSE q \in Packages : q.name = specifier
           target == exportsTarget(pkg.exports, conditionNames)
       IN IF target = null THEN null
          ELSE firstExisting(files,
                 << joinPath(joinPath(Root, <<"n","o","d","e","_","m","o","d","u","l","e","s">>),
                             joinPath(pkg.name, target)) >>)
  ELSE null

\* ResolverFactory.sync / .async of an instance configured with
\* conditionNames: alias table first, then ordinary resolution.
engineResolve(files, options, dir, specifier) ==
  LET aliased == resolveAlias(files, options.extensions, AliasTable.baseDirectory, AliasTable.patterns, specifier)
  IN IF aliased # null THEN aliased
     ELSE IF StartsWith(specifier, <<".","/">>)
          THEN resolveAsFile(files, options.extensions, joinPath(dir, Slice(specifier, 2)))
     ELSE IF StartsWith(specifier, <<"/">>) THEN resolveAsFile(files, options.extensions, specifier)
     ELSE resolvePackage(files, options.conditionNames, specifier)

(* ------------------------------------------------------------------ *)
(* Values of the hooks                                                 *)
(* ------------------------------------------------------------------ *)

\* importAttributes is a set of <<key, value>> pairs; this is undefined.
undefinedAttributes == {<<"undefined">>}

NoResult == [url |-> <<>>, format |-> "undefined", importAttributes |-> undefinedAttributes,
             shortCircuit |-> FALSE]

NoError == [origin |-> "none", isError |-> FALSE, hasCode |-> FALSE, code |-> "", message |-> ""]

Return(result) == [kind |-> "return", result |-> result, error |-> NoError]

Throw(error) == [kind |-> "throw", result |-> NoResult, error |-> error]

Pending == [kind |-> "pending", result |-> NoResult, error |-> NoError]

\* An error object the native resolver throws: origin identifies the object.
NativeError(code, message) ==
  [origin |-> "native", isError |-> TRUE, hasCode |-> TRUE, code |-> code, message |-> message]

\* Errors constructed by the loader itself or by node:url.
ResolverNotInitialized ==
  [origin |-> "loader", isError |-> TRUE, hasCode |-> FALSE, code |-> "",
   message |-> "Resolver not initialized"]

FailedTypeOnly ==
  [origin |-> "loader", isError |-> TRUE, hasCode |-> FALSE, code |-> "",
   message |-> "Failed to resolve type-only package"]

InvalidFileUrl ==
  [origin |-> "node:url", isError |-> TRUE, hasCode |-> TRUE, code |-> "ERR_INVALID_FILE_URL",
   message |-> "File URL host or path is invalid"]

\* One use of a capability during a hook call. dir is the directory an engine
\* call resolves from and the parent argument of a call of the custom resolver.
Event(op, conditions, dir, specifier) ==
  [op |-> op, conditions |-> conditions, dir |-> dir, specifier |-> specifier]

(* ------------------------------------------------------------------ *)
(* src/resolver.ts: TypeScriptResolver                                 *)
(* ------------------------------------------------------------------ *)

\* this.baseResolver, created by the constructor
baseResolver ==
  [id |-> "base", serial |-> 0, conditionNames |-> baseOptions.conditionNames,
   extensions |-> baseOptions.extensions]

\* getResolverForConditions creating instances from the conditions alone,
\* which leaves them the extensions of the engine's defaults
getResolverForConditionsBare(resolverCache, conditions) ==
  LET cacheKey == Join(conditions)
  IN IF cacheKey = "node,import"
     THEN [instance |-> baseResolver, resolverCache |-> resolverCache]
     ELSE IF \E r \in resolverCache : r.id = cacheKey
          THEN [instance |-> CHOOSE r \in resolverCache : r.id = cacheKey,
                resolverCache |-> resolverCache]
     ELSE LET created == [id |-> cacheKey, serial |-> Cardinality(resolverCache) + 1,
                          conditionNames |-> conditions, extensions |-> <<ExtJs, ExtJson>>]
          IN [instance |-> created, resolverCache |-> resolverCache \cup {created}]

\* getResolverForConditions that creates an instance on every call
getResolverForConditionsAlwaysNew(resolverCache, conditions) ==
  LET cacheKey == Join(conditions)
  IN IF cacheKey = "node,import"
     THEN [instance |-> baseResolver, resolverCache |-> resolverCache]
     ELSE LET created == [id |-> cacheKey, serial |-> Cardinality(resolverCache) + 1,
                          conditionNames |-> conditions,
                          extensions |-> baseOptions.extensions]
          IN [instance |-> created, resolverCache |-> resolverCache \cup {created}]

\* getResolverForConditions: the instance for a condition list, and the
\* resolverCache map after the call
getResolverForConditions(resolverCache, conditions) ==
  LET cacheKey == Join(conditions)
  IN IF cacheKey = "node,import"
     THEN [instance |-> baseResolver, resolverCache |-> resolverCache]
     ELSE IF \E r \in resolverCache : r.id = cacheKey
          THEN [instance |-> CHOOSE r \in resolverCache : r.id = cacheKey,
                resolverCache |-> resolverCache]
     ELSE LET created == [id |-> cacheKey, serial |-> Cardinality(resolverCache) + 1,
                          conditionNames |-> conditions,
                          extensions |-> baseOptions.extensions]
          IN [instance |-> created, resolverCache |-> resolverCache \cup {created}]

\* TypeScriptResolver.resolve, up to the engine call: does converting the
\* parent to a path throw?
parentDirThrows(parent) ==
  parent # undefined /\ StartsWith(parent, FilePrefix) /\ fileURLToPathThrows(parent)

\* TypeScriptResolver.resolve, up to the engine call: the directory resolved from
parentDir(parent) ==
  IF parent = undefined THEN Cwd
  ELSE LET parentPath == IF StartsWith(parent, FilePrefix) THEN fileURLToPath(parent) ELSE parent
       IN IF EndsWith(parentPath, <<"/">>) THEN parentPath ELSE dirname(parentPath)

\* TypeScriptResolver.resolveSync: resolve with ResolverFactory.sync in place
\* of .async. threw: an exception left the method.
resolverResolveSync(files, resolverCache, specifier, parent, conditions) ==
  IF parentDirThrows(parent)
  THEN [threw |-> TRUE, path |-> null, resolverCache |-> resolverCache,
        trace |-> << Event("custom", conditions, parent, specifier) >>]
  ELSE Only({ [threw |-> FALSE,
               path |-> engineResolve(files, got.instance, dir, specifier),
               resolverCache |-> got.resolverCache,
               trace |-> << Event("custom", conditions, parent, specifier),
                            Event("pool", conditions, <<>>, <<>>),
                            Event("engine", got.instance.conditionNames, dir, specifier) >>]
              : got \in {getResolverForConditions(resolverCache, conditions)},
                dir \in {parentDir(parent)} })

(* ------------------------------------------------------------------ *)
(* src/loader.ts: the helpers of the resolve hooks                     *)
(* ------------------------------------------------------------------ *)

RecoverableCodes == {"ERR_MODULE_NOT_FOUND", "ERR_UNSUPPORTED_DIR_IMPORT",
                     "ERR_INVALID_MODULE_SPECIFIER", "ERR_PACKAGE_PATH_NOT_EXPORTED",
                     "MODULE_NOT_FOUND"}

\* isResolutionError that accepts every Error carrying a code
isResolutionErrorAnyCode(error) == error.isError /\ error.hasCode

isResolutionError(error) ==
  /\ error.isError
  /\ error.hasCode
  /\ \/ error.code = "ERR_MODULE_NOT_FOUND"
     \/ error.code = "ERR_UNSUPPORTED_DIR_IMPORT"
     \/ error.code = "ERR_INVALID_MODULE_SPECIFIER"
     \/ error.code = "ERR_PACKAGE_PATH_NOT_EXPORTED"
     \/ error.code = "MODULE_NOT_FOUND"

\* passThrough that marks the native result as final
passThroughShortCircuits(nativeOutcome) ==
  [nativeOutcome EXCEPT !.result.shortCircuit = TRUE]

\* `return nextResolve(specifier, context)`: the native result is the hook's
passThrough(nativeOutcome) == nativeOutcome

\* isSkippedSpecifier without the data: check
isSkippedSpecifierNoData(specifier) ==
  \/ StartsWith(specifier, NodePrefix)
  \/ StartsWith(specifier, HttpPrefix)
  \/ StartsWith(specifier, HttpsPrefix)

\* Built-in modules and remote URLs are never resolved by the fallback.
isSkippedSpecifier(specifier) ==
  \/ StartsWith(specifier, NodePrefix)
  \/ StartsWith(specifier, HttpPrefix)
  \/ StartsWith(specifier, HttpsPrefix)
  \/ StartsWith(specifier, DataPrefix)

\* formatResolvedResult that sets shortCircuit only with a format
formatResolvedResultNoShortCircuit(resolved) ==
  LET url == pathToFileURL(resolved)
  IN IF EndsWith(resolved, ExtJson)
     THEN [url |-> url, format |-> "json", importAttributes |-> {<<"type", "json">>},
           shortCircuit |-> TRUE]
     ELSE [url |-> url, format |-> "undefined", importAttributes |-> undefinedAttributes,
           shortCircuit |-> FALSE]

\* formatResolvedResult with the formats of .mts and .cts exchanged
formatResolvedResultSwapped(resolved) ==
  LET url == pathToFileURL(resolved)
  IN IF EndsWith(resolved, ExtJson)
     THEN [url |-> url, format |-> "json", importAttributes |-> {<<"type", "json">>},
           shortCircuit |-> TRUE]
     ELSE IF EndsWith(resolved, ExtWasm)
     THEN [url |-> url, format |-> "wasm", importAttributes |-> {<<"type", "wasm">>},
           shortCircuit |-> TRUE]
     ELSE IF EndsWith(resolved, ExtMts)
     THEN [url |-> url, format |-> "commonjs-typescript",
           importAttributes |-> undefinedAttributes, shortCircuit |-> TRUE]
     ELSE IF EndsWith(resolved, ExtCts)
     THEN [url |-> url, format |-> "module-typescript",
           importAttributes |-> undefinedAttributes, shortCircuit |-> TRUE]
     ELSE [url |-> url, format |-> "undefined", importAttributes |-> undefinedAttributes,
           shortCircuit |-> TRUE]

formatResolvedResult(resolved) ==
  LET url == pathToFileURL(resolved)
  IN IF EndsWith(resolved, ExtJson)
     THEN [url |-> url, format |-> "json", importAttributes |-> {<<"type", "json">>},
           shortCircuit |-> TRUE]
     ELSE IF EndsWith(resolved, ExtWasm)
     THEN [url |-> url, format |-> "wasm", importAttributes |-> {<<"type", "wasm">>},
           shortCircuit |-> TRUE]
     ELSE IF EndsWith(resolved, ExtMts)
     THEN [url |-> url, format |-> "module-typescript",
           importAttributes |-> undefinedAttributes, shortCircuit |-> TRUE]
     ELSE IF EndsWith(resolved, ExtCts)
     THEN [url |-> url, format |-> "commonjs-typescript",
           importAttributes |-> undefinedAttributes, shortCircuit |-> TRUE]
     ELSE [url |-> url, format |-> "undefined", importAttributes |-> undefinedAttributes,
           shortCircuit |-> TRUE]

\* normalizeFileUrl throws where fileURLToPath does: an entry-point file URL
\* that has a host or an encoded slash.
normalizeFileUrlThrows(specifier, parentURL) ==
  /\ StartsWith(specifier, FilePrefix)
  /\ ~(parentURL # undefined /\ StartsWith(parentURL, FilePrefix)
       /\ StartsWith(specifier, parentURL))
  /\ (parentURL = undefined \/ parentURL = <<>>)
  /\ fileURLToPathThrows(specifier)

\* normalizeFileUrl deriving the parent without the closing slash
normalizeFileUrlNoSlash(specifier, parentURL) ==
  IF ~StartsWith(specifier, FilePrefix)
  THEN [parent |-> parentURL, specifier |-> specifier]
  ELSE IF parentURL # undefined /\ StartsWith(parentURL, FilePrefix)
          /\ StartsWith(specifier, parentURL)
  THEN [parent |-> parentURL, specifier |-> Slice(specifier, Len(parentURL))]
  ELSE IF parentURL = undefined \/ parentURL = <<>>
  THEN LET filePath == fileURLToPath(specifier)
           filename == basename(filePath)
       IN IF filename # <<>>
          THEN [parent |-> pathToFileURL(dirname(filePath)), specifier |-> filename]
          ELSE [parent |-> parentURL, specifier |-> specifier]
  ELSE [parent |-> parentURL, specifier |-> specifier]

normalizeFileUrl(specifier, parentURL) ==
  IF ~StartsWith(specifier, FilePrefix)
  THEN [parent |-> parentURL, specifier |-> specifier]
  ELSE IF parentURL # undefined /\ StartsWith(parentURL, FilePrefix)
          /\ StartsWith(specifier, parentURL)
  THEN [parent |-> parentURL, specifier |-> Slice(specifier, Len(parentURL))]
  ELSE IF parentURL = undefined \/ parentURL = <<>>
  THEN LET filePath == fileURLToPath(specifier)
           filename == basename(filePath)
           parentHref == pathToFileURL(dirname(filePath))
       IN IF filename # <<>>
          THEN [parent |-> IF EndsWith(parentHref, <<"/">>) THEN parentHref
                           ELSE parentHref \o <<"/">>,
                specifier |-> filename]
          ELSE [parent |-> parentURL, specifier |-> specifier]
  ELSE [parent |-> parentURL, specifier |-> specifier]

\* The result for a type-only package: an empty module.
EmptyModule ==
  [url |-> EmptyModuleUrl, format |-> "module", importAttributes |-> undefinedAttributes,
   shortCircuit |-> TRUE]

\* tryResolveTypeOnlyPackage after its nextResolve call returned typesResult
tryResolveTypeOnlyPackage(typesResult) ==
  IF EndsWith(typesResult.url, ExtDts) /\ Includes(typesResult.url, NodeModulesSeg)
  THEN EmptyModule
  ELSE [url |-> typesResult.url, format |-> "undefined",
        importAttributes |-> typesResult.importAttributes, shortCircuit |-> TRUE]

\* tryResolveTypeOnlyPackageSync: threw, or the result returned
tryResolveTypeOnlyPackageSync(files, resolver, resolverCache, specifier, context) ==
  IF ~resolver
  THEN [outcome |-> Throw(ResolverNotInitialized), resolverCache |-> resolverCache,
        trace |-> <<>>]
  ELSE IF normalizeFileUrlThrows(specifier, context.parentURL)
  THEN [outcome |-> Throw(InvalidFileUrl), resolverCache |-> resolverCache, trace |-> <<>>]
  ELSE Only({ [outcome |->
                 IF r.threw THEN Throw(InvalidFileUrl)
                 ELSE IF r.path = null THEN Throw(FailedTypeOnly)
                 ELSE IF EndsWith(pathToFileURL(r.path), ExtDts)
                         /\ Includes(pathToFileURL(r.path), NodeModulesSeg)
                 THEN Return(EmptyModule)
                 ELSE Return(formatResolvedResult(r.path)),
               resolverCache |-> r.resolverCache,
               trace |-> r.trace]
              : r \in {resolverResolveSync(
                         files, resolverCache,
                         normalizeFileUrl(specifier, context.parentURL).specifier,
                         normalizeFileUrl(specifier, context.parentURL).parent,
                         context.conditions \o <<"types">>)} })

\* Standard resolution that keeps the conditions of the retry
resolveSyncStandardWithTypes(files, resolverCache, specifier, context, error, trace) ==
  Only({ [outcome |-> IF r.threw THEN Throw(error)
                      ELSE IF r.path # null THEN Return(formatResolvedResult(r.path))
                      ELSE Throw(error),
          resolverCache |-> r.resolverCache,
          trace |-> trace \o r.trace]
         : r \in {resolverResolveSync(
                    files, resolverCache,
                    normalizeFileUrl(specifier, context.parentURL).specifier,
                    normalizeFileUrl(specifier, context.parentURL).parent,
                    context.conditions \o <<"types">>)} })

\* resolveSync: the outcome of a call, the resolverCache map after it and
\* the capabilities it used. nextResolve.first is what the native resolver
\* does for this specifier and context.
\* resolveSync, lines 156-173: standard resolution with the custom resolver
resolveSyncStandard(files, resolverCache, specifier, context, error, trace) ==
  Only({ [outcome |-> IF r.threw THEN Throw(error)
                      ELSE IF r.path # null THEN Return(formatResolvedResult(r.path))
                      ELSE Throw(error),
          resolverCache |-> r.resolverCache,
          trace |-> trace \o r.trace]
         : r \in {resolverResolveSync(
                    files, resolverCache,
                    normalizeFileUrl(specifier, context.parentURL).specifier,
                    normalizeFileUrl(specifier, context.parentURL).parent,
                    context.conditions)} })

resolveSync(files, resolver, resolverCache, specifier, context, nextResolve) ==
  LET native == << Event("native", context.conditions, <<>>, specifier) >>
      error == nextResolve.first.error
      plain(outcome) == [outcome |-> outcome, resolverCache |-> resolverCache, trace |-> native]
  IN IF nextResolve.first.kind = "return" THEN plain(passThrough(nextResolve.first))
     ELSE IF ~isResolutionError(error) THEN plain(Throw(error))
     ELSE IF isSkippedSpecifier(specifier) THEN plain(Throw(error))
     ELSE IF normalizeFileUrlThrows(specifier, context.parentURL)
     THEN plain(Throw(InvalidFileUrl))
     ELSE IF ~resolver THEN plain(Throw(error))
     ELSE IF error.code = "ERR_PACKAGE_PATH_NOT_EXPORTED"
     THEN Only({ IF types.outcome.kind = "return"
                 THEN [outcome |-> types.outcome, resolverCache |-> types.resolverCache,
                       trace |-> native \o types.trace]
                 ELSE resolveSyncStandard(files, types.resolverCache, specifier, context,
                                          error, native \o types.trace)
                 : types \in {tryResolveTypeOnlyPackageSync(files, resolver, resolverCache,
                                                            specifier, context)} })
     ELSE resolveSyncStandard(files, resolverCache, specifier, context, error, native)

(* ------------------------------------------------------------------ *)
(* The calls the host makes                                            *)
(* ------------------------------------------------------------------ *)

S_mod == <<".","/","m","o","d","u","l","e">>
S_lib == <<"@","l","i","b","/","h","e","l","p","e","r">>
S_builtin == <<"n","o","d","e",":","f","s">>
S_http == <<"h","t","t","p",":","/","/","h","/","m",".","j","s">>
S_https == <<"h","t","t","p","s",":","/","/","h","/","m",".","j","s">>
S_dataurl == <<"d","a","t","a",":","t","e","x","t","/","j","a","v","a","s","c","r","i","p","t",",","1">>
S_wasm == <<".","/","m",".","w","a","s","m">>
S_mts == <<".","/","e",".","m","t","s">>
S_cts == <<".","/","c",".","c","t","s">>
S_dts == <<".","/","t",".","d",".","t","s">>
S_missing == <<".","/","n","o","p","e">>
S_entry == <<"f","i","l","e",":","/","/","/","p","/","@","u","t","i","l","s">>
S_entrySpace == <<"f","i","l","e",":","/","/","/","p","/","a","%","2","0","b",".","t","s">>
S_entrySlash == <<"f","i","l","e",":","/","/","/","p","/","a","%","2","F","b",".","t","s">>
S_under == <<"f","i","l","e",":","/","/","/","p","/","s","r","c","/","m","o","d","u","l","e">>
S_root == <<"f","i","l","e",":","/","/","/">>
U_main == pathToFileURL(F_main)
U_dir == <<"f","i","l","e",":","/","/","/","p","/","s","r","c","/">>
U_host == <<"f","i","l","e",":","/","/","h","/","m",".","t","s">>
U_native == <<"f","i","l","e",":","/","/","/","r","/","m",".","j","s">>

\* The (specifier, parentURL) pairs the host asks about.
Requests ==
  {<<s, U_main>> : s \in {S_mod, S_lib, S_data, S_tf, S_builtin, S_http, S_https, S_dataurl,
                          S_wasm, S_mts, S_cts, S_dts, S_missing, S_entrySlash}}
  \cup {<<S_entry, undefined>>, <<S_entrySpace, undefined>>, <<S_entrySlash, undefined>>,
        <<S_mod, undefined>>, <<S_root, undefined>>, <<S_under, U_dir>>, <<S_mod, U_host>>}

ConditionLists == {<<"node", "import">>, <<"node", "require">>}

\* What the native resolver may return.
NativeResult ==
  [url |-> U_native, format |-> "module", importAttributes |-> {}, shortCircuit |-> FALSE]

\* What the native resolver may throw: the five recoverable codes, another
\* code, an Error without a code, and a thrown value that is no Error.
NativeErrors ==
  {NativeError(c, "Cannot find module") : c \in RecoverableCodes}
  \cup {NativeError("EACCES", "Permission denied"),
        [origin |-> "native", isError |-> TRUE, hasCode |-> FALSE, code |-> "",
         message |-> "boom"],
        [origin |-> "native", isError |-> FALSE, hasCode |-> TRUE,
         code |-> "ERR_MODULE_NOT_FOUND", message |-> "not an Error"]}

\* What the native resolver may do when asked again with the types condition.
TypesError ==
  [origin |-> "native-types", isError |-> TRUE, hasCode |-> TRUE,
   code |-> "ERR_PACKAGE_PATH_NOT_EXPORTED", message |-> "No types export"]

TypesOutcomes ==
  {Throw(TypesError),
   Return([url |-> pathToFileURL(F_tf), format |-> "undefined",
           importAttributes |-> undefinedAttributes, shortCircuit |-> FALSE]),
   Return([url |-> pathToFileURL(F_dts), format |-> "undefined",
           importAttributes |-> {}, shortCircuit |-> FALSE]),
   Return([url |-> pathToFileURL(F_data), format |-> "json",
           importAttributes |-> {<<"type", "json">>}, shortCircuit |-> FALSE])}

\* The native resolver's behaviour for one request: its answer to the first
\* call and its answer to the call with the types condition appended (asked
\* for only after package-path-not-exported).
NativeBehaviours ==
  {[first |-> Return(NativeResult), types |-> Throw(TypesError)]}
  \cup {[first |-> Throw(e), types |-> Throw(TypesError)] : e \in NativeErrors}
  \cup {[first |-> Throw(NativeError("ERR_PACKAGE_PATH_NOT_EXPORTED", "Cannot find module")),
         types |-> o] : o \in TypesOutcomes}

Inputs ==
  {[specifier |-> rq[1],
    context |-> [parentURL |-> rq[2], conditions |-> c],
    nextResolve |-> nb] : rq \in Requests, c \in ConditionLists, nb \in NativeBehaviours}

(* ------------------------------------------------------------------ *)
(* The resolver with a path cache: ResolverCache and the resolve that  *)
(* uses it                                                             *)
(* ------------------------------------------------------------------ *)

MaxSize == 2

MaxInserts == 4

\* A Map in insertion order: a sequence of entries. `at` numbers the
\* insertions, for the properties only.
MapHas(cache, key) == \E i \in 1..Len(cache) : cache[i].key = key

\* ResolverCache.get
cacheGet(cache, key) ==
  IF MapHas(cache, key)
  THEN cache[CHOOSE i \in 1..Len(cache) : cache[i].key = key].value
  ELSE undefined

\* ResolverCache.set of a cache constructed with maxSize: a cache of
\* maxSize entries or more loses its first key, if there is one and it is
\* truthy; Map.set keeps the position of a key it already holds.
cacheSetWithin(maxSize, cache, key, value, at) ==
  LET firstKey == IF Len(cache) > 0 THEN cache[1].key ELSE undefined
      kept == IF Len(cache) >= maxSize /\ firstKey # undefined /\ firstKey # <<>>
              THEN Tail(cache) ELSE cache
  IN IF MapHas(kept, key)
     THEN [i \in 1..Len(kept) |-> IF kept[i].key = key THEN [kept[i] EXCEPT !.value = value]
                                  ELSE kept[i]]
     ELSE Append(kept, [key |-> key, value |-> value, at |-> at])

\* ResolverCache.set that removes the newest entry of a full cache
cacheSetEvictsNewest(cache, key, value, at) ==
  LET kept == IF Len(cache) >= MaxSize /\ Len(cache) > 0
              THEN SubSeq(cache, 1, Len(cache) - 1) ELSE cache
  IN IF MapHas(kept, key)
     THEN [i \in 1..Len(kept) |-> IF kept[i].key = key THEN [kept[i] EXCEPT !.value = value]
                                  ELSE kept[i]]
     ELSE Append(kept, [key |-> key, value |-> value, at |-> at])

\* ResolverCache.set of the cache constructed with maxSize = MaxSize
cacheSet(cache, key, value, at) == cacheSetWithin(MaxSize, cache, key, value, at)

\* ResolverCache.clear
cacheClear == <<>>

\* The options of the one engine instance of the resolver with a path cache.
cachedResolverOptions ==
  [conditionNames |-> <<"import", "require", "node", "default">>, extensions |-> extensions]

\* `${specifier}:${parent}`
cacheKeyOf(specifier, parent) == specifier \o <<":">> \o parent

\* resolve of the resolver with a path cache that stores nothing
cachedResolveNoStore(files, cache, specifier, parent, at) ==
  LET cached == cacheGet(cache, cacheKeyOf(specifier, parent))
  IN IF cached # undefined /\ cached # <<>>
     THEN [result |-> cached, cache |-> cache, probed |-> FALSE]
     ELSE [result |-> engineResolve(files, cachedResolverOptions,
                                    dirname(fileURLToPath(parent)), specifier),
           cache |-> cache, probed |-> TRUE]

\* resolve(specifier, parent) of the resolver with a path cache: a hit is
\* returned, a miss asks the engine and stores the path it finds.
cachedResolve(files, cache, specifier, parent, at) ==
  LET cacheKey == cacheKeyOf(specifier, parent)
      cached == cacheGet(cache, cacheKey)
  IN IF cached # undefined /\ cached # <<>>
     THEN [result |-> cached, cache |-> cache, probed |-> FALSE]
     ELSE Only({ [result |-> path,
                  cache |-> IF path # null THEN cacheSet(cache, cacheKey, path, at) ELSE cache,
                  probed |-> TRUE]
                 : path \in { engineResolve(files, cachedResolverOptions,
                                            dirname(fileURLToPath(parent)), specifier) } })

\* A second importing module, in the lib directory.
U_lib == pathToFileURL(F_helper)

CacheSpecifiers == {S_mod, S_lib, S_data, S_missing}

CacheParents == {U_main, U_lib}

\* No call yet.
NoCacheCall ==
  [op |-> "none", specifier |-> <<>>, parent |-> <<>>, result |-> null, probed |-> FALSE,
   repeat |-> FALSE, earlier |-> null, evicted |-> {}, evictedRead |-> FALSE]

\* cache: the Map of the ResolverCache. inserted: how many entries were
\* ever inserted. last: the last call. seen: the calls since the last clear
\* or eviction, with their results. hits: the keys read from the cache since
\* they were inserted.
EmptyPathCache ==
  [cache |-> <<>>, inserted |-> 0, last |-> NoCacheCall, seen |-> {}, hits |-> {}]

\* warm: the instances whose engine holds cached resolutions. calls: the
\* calls of TypeScriptResolver.resolve awaiting their instance. served: the
\* calls that settled. last: the last operation. cleared: the instances
\* that were warm when clearCache was last called.
EmptyPool == [warm |-> {}, calls |-> {}, served |-> {}, last |-> "none", cleared |-> {}]

(* ------------------------------------------------------------------ *)
(* The load hook and the removal of type-only imports (loader.ts)      *)
(* ------------------------------------------------------------------ *)

\* s.slice(a, b): 0-based, b exclusive, both clamped to the string
SliceTo(s, a, b) ==
  LET lo == IF a > Len(s) THEN Len(s) ELSE a
      hi == IF b > Len(s) THEN Len(s) ELSE b
  IN SubSeq(s, lo + 1, hi)

\* the characters \s matches in the sources considered
Whitespace == {" ", "\n"}

\* the length of the run of whitespace s starts with
SpacesAtStart(s) ==
  CHOOSE n \in 0..Len(s) :
    /\ \A i \in 1..n : s[i] \in Whitespace
    /\ n = Len(s) \/ s[n + 1] \notin Whitespace

\* the length of the run of whitespace s ends with
SpacesAtEnd(s) ==
  CHOOSE n \in 0..Len(s) :
    /\ \A i \in (Len(s) - n + 1)..Len(s) : s[i] \in Whitespace
    /\ n = Len(s) \/ s[Len(s) - n] \notin Whitespace

\* /^(\s*,\s*)/.exec(afterSpec): the length of the match, -1 for no match
trailingMatch(afterSpec) ==
  LET n == SpacesAtStart(afterSpec)
  IN IF n < Len(afterSpec) /\ afterSpec[n + 1] = ","
     THEN n + 1 + SpacesAtStart(Slice(afterSpec, n + 1))
     ELSE -1

\* /,\s*$/.exec(beforeSpec): the length of the match, -1 for no match
leadingMatch(beforeSpec) ==
  LET n == SpacesAtEnd(beforeSpec)
  IN IF n < Len(beforeSpec) /\ beforeSpec[Len(beforeSpec) - n] = ","
     THEN n + 1
     ELSE -1

(* The parser (oxc-parser) is outside the repository.  A source buffer is  *)
(* the printed form of a list of import declarations, and parse gives back *)
(* those declarations as nodes carrying the offsets they were printed at.  *)
(* Imported and local names are one character long.                        *)

KwImport == <<"i","m","p","o","r","t"," ">>
KwType == <<"t","y","p","e"," ">>
KwAs == <<" ","a","s"," ">>
KwFrom == <<" ","f","r","o","m"," ">>
KwWith == <<" ","w","i","t","h"," ","{","}">>
InnerComment == <<" ","/","*"," ","t"," ","*","/">>
DefaultBinding == <<"p","g">>

\* the text of one named specifier: `p`, `p as x`, `"p" as x`, `type V`
specifierText(spec) ==
  (IF spec.importKind = "type" THEN KwType ELSE <<>>)
  \o (IF "name" \in DOMAIN spec.imported
      THEN <<spec.imported.name>>
      ELSE <<"\"", spec.imported.value, "\"">>)
  \o (IF "name" \in DOMAIN spec.imported /\ spec.imported.name = spec.local.name
      THEN <<>>
      ELSE KwAs \o <<spec.local.name>>)

\* the specifiers of a brace clause, separated by sep
RECURSIVE namedText(_, _)
namedText(named, sep) ==
  IF Len(named) = 0 THEN <<>>
  ELSE IF Len(named) = 1 THEN specifierText(named[1])
  ELSE specifierText(named[1]) \o sep \o namedText(Tail(named), sep)

\* the text of a declaration up to its first named specifier
declarationHead(decl) ==
  KwImport
  \o (IF decl.importKind = "type" THEN KwType ELSE <<>>)
  \o (IF decl.default THEN DefaultBinding \o <<",", " ">> ELSE <<>>)
  \o <<"{", " ">>

\* the text of a declaration after its last named specifier
declarationTail(decl) ==
  (IF decl.trailingComma THEN <<",">> ELSE <<>>)
  \o (IF decl.comment THEN InnerComment ELSE <<>>)
  \o <<" ", "}">> \o KwFrom \o <<"\"">> \o decl.source \o <<"\"">>
  \o (IF decl.attributes THEN KwWith ELSE <<>>)

declarationText(decl) ==
  declarationHead(decl) \o namedText(decl.named, decl.sep) \o declarationTail(decl)

\* the source buffer: one declaration per line
RECURSIVE sourceText(_)
sourceText(decls) ==
  IF Len(decls) = 0 THEN <<>>
  ELSE IF Len(decls) = 1 THEN declarationText(decls[1])
  ELSE declarationText(decls[1]) \o <<"\n">> \o sourceText(Tail(decls))

\* the ImportDeclaration node of a declaration printed at offset `at`
declarationNode(decl, at) ==
  LET open == at + Len(declarationHead(decl))
      startOf(i) ==
        open + Len(namedText(SubSeq(decl.named, 1, i - 1), decl.sep))
             + (IF i > 1 THEN Len(decl.sep) ELSE 0)
  IN [type |-> "ImportDeclaration",
      importKind |-> decl.importKind,
      source |-> [value |-> decl.source],
      start |-> at,
      end |-> at + Len(declarationText(decl)),
      specifiers |->
        (IF decl.default
         THEN << [type |-> "ImportDefaultSpecifier", start |-> at + Len(KwImport),
                  end |-> at + Len(KwImport) + Len(DefaultBinding)] >>
         ELSE <<>>)
        \o [i \in 1..Len(decl.named) |->
             [type |-> "ImportSpecifier",
              importKind |-> decl.named[i].importKind,
              imported |-> decl.named[i].imported,
              local |-> decl.named[i].local,
              start |-> startOf(i),
              end |-> startOf(i) + Len(specifierText(decl.named[i]))]]]

\* result.program.body of parse(url, source)
RECURSIVE programBody(_, _)
programBody(decls, at) ==
  IF Len(decls) = 0 THEN <<>>
  ELSE <<declarationNode(decls[1], at)>>
       \o programBody(Tail(decls), at + Len(declarationText(decls[1])) + 1)

\* parse(url, source) of the printed declarations; errors stands for a
\* source the parser reports errors for
parse(decls, errors) ==
  [errors |-> errors, program |-> [body |-> programBody(decls, 0)]]

\* nextLoad's source field: a string, a Buffer, null or undefined
StringSource(text) == [type |-> "string", data |-> text]
BufferSource(text) == [type |-> "Buffer", data |-> text]
NullSource == [type |-> "null", data |-> <<>>]
UndefinedSource == [type |-> "undefined", data |-> <<>>]

\* result.source.toString()
toString(source) == source.data

\* the values of runtimeExportsCache: null, or the Set of exported names
nullExports == [null |-> TRUE, names |-> {}]
exportsSet(names) == [null |-> FALSE, names |-> names]

Pkg_pg == <<"p","g">>
Pkg_empty == <<"e","m">>
Pkg_types == <<"t","y">>
RelativeSource == <<".","/","m">>
AbsoluteSource == <<"/","m">>
BuiltinSource == NodePrefix \o <<"f","s">>
\* the same builtin module under its name without the node: scheme
BareBuiltinSource == <<"f","s">>

\* Object.keys of the modules import(specifier) can load; importing any
\* other specifier fails
RuntimeModules ==
  (Pkg_pg :> {"default", "p", "q"}) @@ (Pkg_empty :> {})
  @@ (BareBuiltinSource :> {"default", "p"})

\* getRuntimeExports(specifier) once its import has settled: the value it
\* resolves to and runtimeExportsCache afterwards
getRuntimeExports(cache, specifier) ==
  IF specifier \in DOMAIN cache
  THEN [value |-> cache[specifier], cache |-> cache]
  ELSE LET exports == IF specifier \in DOMAIN RuntimeModules
                      THEN exportsSet(RuntimeModules[specifier])
                      ELSE nullExports
       IN [value |-> exports, cache |-> (specifier :> exports) @@ cache]

\* "name" in imported ? imported.name : spec.local.name
importedName(spec) ==
  IF "name" \in DOMAIN spec.imported THEN spec.imported.name ELSE spec.local.name

\* the named specifiers of a declaration that do not exist at runtime
specifiersToRemove(node, runtimeExports) ==
  LET marked(spec) ==
        /\ spec.type = "ImportSpecifier"
        /\ spec.importKind # "type"
        /\ importedName(spec) \notin runtimeExports.names
      found == SelectSeq(node.specifiers, marked)
  IN [i \in 1..Len(found) |->
       [end |-> found[i].end, name |-> found[i].local.name, start |-> found[i].start]]

\* insertion of mod behind the elements that do not start before it
RECURSIVE insertByStart(_, _)
insertByStart(sorted, mod) ==
  IF Len(sorted) = 0 THEN <<mod>>
  ELSE IF Head(sorted).start >= mod.start
       THEN <<Head(sorted)>> \o insertByStart(Tail(sorted), mod)
       ELSE <<mod>> \o sorted

\* list.toSorted((a, b) => b.start - a.start)
RECURSIVE toSortedByStart(_)
toSortedByStart(list) ==
  IF Len(list) = 0 THEN <<>>
  ELSE insertByStart(toSortedByStart(SubSeq(list, 1, Len(list) - 1)), list[Len(list)])

\* all named specifiers go and a default or namespace specifier stays:
\* the edit that removes the brace clause
removeNamedClause(source, node) ==
  LET importText == SliceTo(source, node.start, node.end)
      braceStart == IndexOf(importText, "{")
      braceEnd == LastIndexOf(importText, "}")
      beforeBraces == SliceTo(importText, 0, braceStart)
      commaIndex == LastIndexOf(beforeBraces, ",")
  IN IF braceStart # -1 /\ braceEnd # -1
     THEN << [end |-> node.start + braceEnd + 1,
              replacement |-> <<>>,
              start |-> IF commaIndex # -1 THEN node.start + commaIndex
                        ELSE node.start + braceStart] >>
     ELSE <<>>

CommentOpen ==
  <<"/","*"," ","r","e","m","o","v","e","d"," ","t","y","p","e","-","o","n","l","y",":"," ">>
CommentClose == <<" ","*","/">>

\* all named specifiers go and nothing else is imported: the edit that
\* comments the declaration out
commentOut(source, node) ==
  << [end |-> node.end,
      replacement |-> CommentOpen \o SliceTo(source, node.start, node.end) \o CommentClose,
      start |-> node.start] >>

\* some named specifiers stay: the edit that removes one specifier
removeSpecifier(source, node, spec) ==
  LET afterSpec == SliceTo(source, spec.end, node.end)
      trailing == trailingMatch(afterSpec)
      beforeSpec == SliceTo(source, node.start, spec.start)
      leading == leadingMatch(beforeSpec)
  IN [end |-> IF trailing # -1 THEN spec.end + trailing ELSE spec.end,
      replacement |-> <<>>,
      start |-> IF trailing = -1 /\ leading # -1 THEN spec.start - leading
                ELSE spec.start]

\* declarationModifications counting the value specifiers only as named
declarationModificationsValueOnly(source, node, runtimeExports) ==
  LET toRemove == specifiersToRemove(node, runtimeExports)
      namedSpecifiers ==
        SelectSeq(node.specifiers,
                  LAMBDA s : s.type = "ImportSpecifier" /\ s.importKind # "type")
      remainingCount == Len(namedSpecifiers) - Len(toRemove)
      hasOtherImports ==
        \E i \in 1..Len(node.specifiers) :
          node.specifiers[i].type \in {"ImportDefaultSpecifier", "ImportNamespaceSpecifier"}
      sortedToRemove == toSortedByStart(toRemove)
  IN IF Len(toRemove) = 0 THEN <<>>
     ELSE IF remainingCount = 0
          THEN IF hasOtherImports THEN removeNamedClause(source, node)
               ELSE commentOut(source, node)
          ELSE [i \in 1..Len(sortedToRemove) |->
                 removeSpecifier(source, node, sortedToRemove[i])]

\* the edits one introspected declaration adds to modifications
declarationModifications(source, node, runtimeExports) ==
  LET toRemove == specifiersToRemove(node, runtimeExports)
      namedSpecifiers == SelectSeq(node.specifiers, LAMBDA s : s.type = "ImportSpecifier")
      remainingCount == Len(namedSpecifiers) - Len(toRemove)
      hasOtherImports ==
        \E i \in 1..Len(node.specifiers) :
          node.specifiers[i].type \in {"ImportDefaultSpecifier", "ImportNamespaceSpecifier"}
      sortedToRemove == toSortedByStart(toRemove)
  IN IF Len(toRemove) = 0 THEN <<>>
     ELSE IF remainingCount = 0
          THEN IF hasOtherImports THEN removeNamedClause(source, node)
               ELSE commentOut(source, node)
          ELSE [i \in 1..Len(sortedToRemove) |->
                 removeSpecifier(source, node, sortedToRemove[i])]

\* whether the loop over result.program.body skips the node before it
\* asks for the runtime exports
skipsDeclaration(node) ==
  \/ node.type # "ImportDeclaration"
  \/ node.importKind = "type"
  \/ StartsWith(node.source.value, <<".">>)
  \/ StartsWith(node.source.value, <<"/">>)
  \/ StartsWith(node.source.value, NodePrefix)

\* the loop over result.program.body, were it to end at the first
\* declaration whose runtime exports are null
RECURSIVE collectModificationsUntilNull(_, _, _)
collectModificationsUntilNull(source, body, cache) ==
  IF Len(body) = 0 THEN [modifications |-> <<>>, cache |-> cache]
  ELSE IF skipsDeclaration(Head(body))
       THEN collectModificationsUntilNull(source, Tail(body), cache)
       ELSE LET got == getRuntimeExports(cache, Head(body).source.value)
                rest == collectModificationsUntilNull(source, Tail(body), got.cache)
            IN IF got.value.null THEN [modifications |-> <<>>, cache |-> got.cache]
               ELSE [modifications |->
                       declarationModifications(source, Head(body), got.value)
                       \o rest.modifications,
                     cache |-> rest.cache]

\* the loop over result.program.body: modifications and runtimeExportsCache
\* after it
RECURSIVE collectModifications(_, _, _)
collectModifications(source, body, cache) ==
  IF Len(body) = 0 THEN [modifications |-> <<>>, cache |-> cache]
  ELSE IF skipsDeclaration(Head(body))
       THEN collectModifications(source, Tail(body), cache)
       ELSE LET got == getRuntimeExports(cache, Head(body).source.value)
                rest == collectModifications(source, Tail(body), got.cache)
            IN [modifications |->
                  (IF got.value.null THEN <<>>
                   ELSE declarationModifications(source, Head(body), got.value))
                  \o rest.modifications,
                cache |-> rest.cache]

\* the splices of sortedMods, applied one after the other
RECURSIVE applyModifications(_, _)
applyModifications(modified, sortedMods) ==
  IF Len(sortedMods) = 0 THEN modified
  ELSE applyModifications(
         SliceTo(modified, 0, Head(sortedMods).start)
           \o Head(sortedMods).replacement
           \o Slice(modified, IF Head(sortedMods).end > Len(modified) THEN Len(modified)
                              ELSE Head(sortedMods).end),
         Tail(sortedMods))

\* filterTypeOnlyImports(source, url), given what parse(url, source) returns:
\* the string it resolves to, the edits it collected and runtimeExportsCache
\* afterwards
filterTypeOnlyImports(source, result, cache) ==
  IF result.errors
  THEN [source |-> source, modifications |-> <<>>, cache |-> cache]
  ELSE LET collected == collectModifications(source, result.program.body, cache)
       IN [source |-> applyModifications(source, toSortedByStart(collected.modifications)),
           modifications |-> collected.modifications,
           cache |-> collected.cache]

\* load, were it to rewrite every typed source rather than the ESM ones only
loadAnyTypescript(result, parsed, cache) ==
  IF result.format \notin {"module-typescript", "commonjs-typescript"}
     \/ result.source.type \in {"null", "undefined"}
  THEN [returned |-> result, parsed |-> FALSE, modifications |-> <<>>, cache |-> cache]
  ELSE LET source == toString(result.source)
           filtered == filterTypeOnlyImports(source, parsed, cache)
       IN [returned |-> IF filtered.source # source
                        THEN [result EXCEPT !.source = StringSource(filtered.source)]
                        ELSE result,
           parsed |-> TRUE,
           modifications |-> filtered.modifications,
           cache |-> filtered.cache]

\* load, were it to build a new result whatever the filter returned
loadAlwaysRebuilds(result, parsed, cache) ==
  IF result.format # "module-typescript" \/ result.source.type \in {"null", "undefined"}
  THEN [returned |-> result, parsed |-> FALSE, modifications |-> <<>>, cache |-> cache]
  ELSE LET source == toString(result.source)
           filtered == filterTypeOnlyImports(source, parsed, cache)
       IN [returned |-> [result EXCEPT !.source = StringSource(filtered.source)],
           parsed |-> TRUE,
           modifications |-> filtered.modifications,
           cache |-> filtered.cache]

\* load(url, context, nextLoad) from the moment nextLoad has returned result:
\* what the hook returns, whether it parsed the source, the edits and
\* runtimeExportsCache afterwards
load(result, parsed, cache) ==
  IF result.format # "module-typescript" \/ result.source.type \in {"null", "undefined"}
  THEN [returned |-> result, parsed |-> FALSE, modifications |-> <<>>, cache |-> cache]
  ELSE LET source == toString(result.source)
           filtered == filterTypeOnlyImports(source, parsed, cache)
       IN [returned |-> IF filtered.source # source
                        THEN [result EXCEPT !.source = StringSource(filtered.source)]
                        ELSE result,
           parsed |-> TRUE,
           modifications |-> filtered.modifications,
           cache |-> filtered.cache]

(* Sources the load hook is given.  *)

MaxSpecifiers == 3

\* exported at runtime by pg: p, q; declared by its types only: T, U, V
SpecifierForms ==
  { [importKind |-> "value", imported |-> [name |-> "p"], local |-> [name |-> "p"]],
    [importKind |-> "value", imported |-> [name |-> "q"], local |-> [name |-> "q"]],
    [importKind |-> "value", imported |-> [name |-> "T"], local |-> [name |-> "T"]],
    [importKind |-> "value", imported |-> [name |-> "U"], local |-> [name |-> "U"]],
    [importKind |-> "value", imported |-> [name |-> "p"], local |-> [name |-> "x"]],
    [importKind |-> "value", imported |-> [name |-> "T"], local |-> [name |-> "q"]],
    [importKind |-> "value", imported |-> [value |-> "q"], local |-> [name |-> "y"]],
    [importKind |-> "value", imported |-> [value |-> "U"], local |-> [name |-> "p"]],
    [importKind |-> "type", imported |-> [name |-> "V"], local |-> [name |-> "V"]] }

\* the lists of up to n named specifiers that bind each local name once
NamedLists(n) ==
  { named \in UNION { [1..k -> SpecifierForms] : k \in 1..n } :
      \A i, j \in 1..Len(named) : i # j => named[i].local.name # named[j].local.name }

Separators == { <<",", " ">>, <<",">>, <<",", "\n", " ">> }

\* import [pg, ] { ... } from "pg" [with {}]
PgDeclarations ==
  [importKind : {"value"}, default : BOOLEAN, named : NamedLists(MaxSpecifiers),
   sep : Separators, trailingComma : BOOLEAN, comment : BOOLEAN, attributes : BOOLEAN,
   source : {Pkg_pg}]

\* the fixture's `import { p, T } from ...` for the other kinds of target,
\* and `import type { p, T } from "pg"`
OtherDeclarations ==
  { [importKind |-> kind, default |-> FALSE, named |-> named,
     sep |-> <<",", " ">>, trailingComma |-> FALSE, comment |-> FALSE, attributes |-> FALSE,
     source |-> source] :
      kind \in {"value"},
      named \in { n \in NamedLists(2) :
                    Len(n) = 2 /\ \A i \in 1..2 : n[i].local.name \in {"p", "T", "U"}
                               /\ "name" \in DOMAIN n[i].imported
                               /\ n[i].imported.name = n[i].local.name },
      source \in {Pkg_empty, Pkg_types, RelativeSource, AbsoluteSource, BuiltinSource,
                  BareBuiltinSource} }
  \cup { [importKind |-> "type", default |-> FALSE, named |-> <<f, g>>,
          sep |-> <<",", " ">>, trailingComma |-> FALSE, comment |-> FALSE, attributes |-> FALSE,
          source |-> Pkg_pg] :
           f \in { s \in SpecifierForms : s.local.name = "p" /\ "name" \in DOMAIN s.imported },
           g \in { s \in SpecifierForms : s.local.name = "T" } }

\* `import { p, q } from "pg"`: every name is a runtime export
PlainDeclaration ==
  [importKind |-> "value", default |-> FALSE,
   named |-> << [importKind |-> "value", imported |-> [name |-> "p"], local |-> [name |-> "p"]],
                [importKind |-> "value", imported |-> [name |-> "q"], local |-> [name |-> "q"]] >>,
   sep |-> <<",", " ">>, trailingComma |-> FALSE, comment |-> FALSE, attributes |-> FALSE,
   source |-> Pkg_pg]

\* the declarations of one source buffer
Programs ==
  { <<d>> : d \in PgDeclarations \cup OtherDeclarations }
  \cup { <<d, e>> : d \in OtherDeclarations, e \in OtherDeclarations }
  \cup { <<d, PlainDeclaration>> : d \in OtherDeclarations }
  \cup { <<PlainDeclaration, d>> : d \in OtherDeclarations }

Formats == {"module-typescript", "commonjs-typescript", "module", "commonjs", "json"}

\* what nextLoad returns for a program
LoadResult(format, source) ==
  [format |-> format, shortCircuit |-> FALSE, source |-> source]

\* the ESM typed sources in full; the fixture's first declaration under every
\* other format, kind of source and parse outcome
LoadInputs ==
  { [decls |-> decls, errors |-> FALSE,
     result |-> LoadResult("module-typescript", BufferSource(sourceText(decls)))] :
      decls \in Programs }
  \cup { [decls |-> decls, errors |-> errors,
           result |-> LoadResult(format, IF kind = "string" THEN StringSource(sourceText(decls))
                                         ELSE IF kind = "Buffer" THEN BufferSource(sourceText(decls))
                                         ELSE IF kind = "null" THEN NullSource
                                         ELSE UndefinedSource)] :
           decls \in { <<d>> : d \in { e \in PgDeclarations :
                         /\ e.named \in NamedLists(2) /\ Len(e.named) = 2
                         /\ e.sep = <<",", " ">> /\ ~e.trailingComma /\ ~e.attributes /\ ~e.comment
                         /\ \A i \in 1..2 : e.named[i].local.name \in {"p", "T"}
                                          /\ "name" \in DOMAIN e.named[i].imported
                                          /\ e.named[i].imported.name = e.named[i].local.name } },
           errors \in BOOLEAN,
           format \in Formats,
           kind \in {"string", "Buffer", "null", "undefined"} }

EmptyExportsCache == [specifier \in {} |-> nullExports]

NoLoadResult == LoadResult("none", UndefinedSource)

\* one call of the load hook: its input, where it is, what it returned,
\* whether it parsed the source, and the edits it collected
ElideIdle(in, cache) ==
  [in |-> in, phase |-> "idle", returned |-> NoLoadResult, parsed |-> FALSE,
   modifications |-> <<>>, runtimeExportsCache |-> cache]

\* the load hook before any module is loaded
NoLoad ==
  ElideIdle([decls |-> <<>>, errors |-> FALSE, result |-> LoadResult("module", NullSource)],
            EmptyExportsCache)

(* ------------------------------------------------------------------ *)
(* getRuntimeExports under concurrent callers (loader.ts)              *)
(* ------------------------------------------------------------------ *)

MaxCallers == 3
MaxProbes == 2

\* the specifiers the callers ask for: pg can be imported, ty cannot
ProbeSpecifiers == {Pkg_pg, Pkg_types}

\* how a promise settles
Fulfilled(value) == [status |-> "fulfilled", value |-> value]
Rejected == [status |-> "rejected", value |-> nullExports]

\* a dynamic import: the n-th import(specifier)
ProbeId(specifier, n) == [specifier |-> specifier, n |-> n]
NoProbeId == ProbeId(<<>>, 0)

\* the synchronous part of getRuntimeExports, were it not to look at
\* pendingImports
lookupExportsNoPending(cache, pending, specifier) ==
  IF specifier \in DOMAIN cache THEN "cached" ELSE "probe"

\* the synchronous part of getRuntimeExports, were it to take a cached null
\* for a miss
lookupExportsNullIsMiss(cache, pending, specifier) ==
  IF specifier \in DOMAIN cache /\ ~cache[specifier].null THEN "cached"
  ELSE IF specifier \in DOMAIN pending THEN "pending"
  ELSE "probe"

\* the synchronous part of getRuntimeExports: the cached value is returned,
\* the pending promise is returned, or an import is started
lookupExports(cache, pending, specifier) ==
  IF specifier \in DOMAIN cache THEN "cached"
  ELSE IF specifier \in DOMAIN pending THEN "pending"
  ELSE "probe"

\* the async function of getRuntimeExports, were it without its catch
probeOutcomeUncaught(specifier, failed) ==
  IF failed
  THEN [stores |-> FALSE, value |-> nullExports, settlement |-> Rejected]
  ELSE [stores |-> TRUE, value |-> exportsSet(RuntimeModules[specifier]),
        settlement |-> Fulfilled(exportsSet(RuntimeModules[specifier]))]

\* the async function of getRuntimeExports, were its catch to return null
\* without recording it
probeOutcomeFailureUnrecorded(specifier, failed) ==
  IF failed
  THEN [stores |-> FALSE, value |-> nullExports, settlement |-> Fulfilled(nullExports)]
  ELSE [stores |-> TRUE, value |-> exportsSet(RuntimeModules[specifier]),
        settlement |-> Fulfilled(exportsSet(RuntimeModules[specifier]))]

\* the async function of getRuntimeExports once import(specifier) has
\* settled: what it stores in runtimeExportsCache and how its promise settles
probeOutcome(specifier, failed) ==
  IF failed
  THEN [stores |-> TRUE, value |-> nullExports, settlement |-> Fulfilled(nullExports)]
  ELSE [stores |-> TRUE, value |-> exportsSet(RuntimeModules[specifier]),
        settlement |-> Fulfilled(exportsSet(RuntimeModules[specifier]))]

\* a caller of getRuntimeExports: the promise it awaits and what it got
IdleCaller == [state |-> "idle", specifier |-> <<>>, on |-> NoProbeId, got |-> Rejected]

\* cache: runtimeExportsCache. pending: pendingImports. started: the number
\* of imports started per specifier. inflight: the imports not yet settled.
\* settled: how the promise of each settled import settled. failed: the
\* imports that failed. callers: the callers of getRuntimeExports.
NoProbe ==
  [cache |-> EmptyExportsCache,
   pending |-> [s \in {} |-> NoProbeId],
   started |-> [s \in ProbeSpecifiers |-> 0],
   inflight |-> {},
   settled |-> [p \in {} |-> Rejected],
   failed |-> {},
   callers |-> [c \in 1..MaxCallers |-> IdleCaller]]

VARIABLES
  resolver,       \* loader.ts `resolver`: FALSE while null, TRUE once created
  resolverCache,  \* TypeScriptResolver.resolverCache: the pooled instances
  input,          \* the request both hooks are called with
  acall,          \* the call of the async hook resolve
  scall,          \* the call of the sync hook resolveSync
  alias,          \* one alias lookup of the resolution engine
  pathCache,      \* the ResolverCache of a resolver with a path cache
  pool,           \* the engine instances of one TypeScriptResolver and the calls using them
  elide,          \* one call of the load hook and runtimeExportsCache
  probe           \* runtimeExportsCache, pendingImports and the callers of getRuntimeExports

vars == <<resolver, resolverCache, input, acall, scall, alias, pathCache, pool, elide, probe>>

NoRequest == [instance |-> baseResolver, dir |-> <<>>, specifier |-> <<>>]

\* initialized: whether `resolver` was set when the call's native resolution
\* settled.
IdleAsync == [pc |-> "idle", error |-> NoError, request |-> NoRequest, outcome |-> Pending,
              trace |-> <<>>, initialized |-> FALSE]

IdleSync == [pc |-> "idle", outcome |-> Pending, trace |-> <<>>, initialized |-> FALSE]

\* An alias lookup that has not run: one pattern with one replacement
\* template, and the specifier to resolve.
AliasLookup(pattern, template, specifier) ==
  [pc |-> "idle", pattern |-> pattern, template |-> template, specifier |-> specifier,
   matched |-> FALSE, capture |-> <<>>, path |-> null, delivered |-> NoResult]

Init ==
  /\ resolver = FALSE
  /\ resolverCache = {}
  /\ input \in Inputs
  /\ acall = IdleAsync
  /\ scall = IdleSync
  /\ alias = AliasLookup(P_lib, R_lib, S_lib)
  /\ pathCache = EmptyPathCache
  /\ pool = EmptyPool
  /\ elide = NoLoad
  /\ probe = NoProbe

\* initialize(): resolver ??= createResolver()
initialize ==
  /\ ~resolver
  /\ resolver' = TRUE
  /\ resolverCache' = {}
  /\ UNCHANGED <<alias, input, acall, scall, pathCache, pool, elide, probe>>

\* The async hook finished with an outcome.
Finish(outcome) ==
  acall' = [acall EXCEPT !.pc = "done", !.outcome = outcome, !.initialized = resolver]

\* resolve, from `await resolver.resolve(...)` to the engine call inside
\* TypeScriptResolver.resolve: a throw is caught and the original error
\* rethrown; otherwise the instance is selected and the call suspends.
StartCustom(error) ==
  LET n == normalizeFileUrl(input.specifier, input.context.parentURL)
      got == getResolverForConditions(resolverCache, input.context.conditions)
      custom == Event("custom", input.context.conditions, n.parent, n.specifier)
  IN IF parentDirThrows(n.parent)
     THEN /\ acall' = [acall EXCEPT !.pc = "done", !.outcome = Throw(error),
                                     !.initialized = TRUE, !.trace = @ \o <<custom>>]
          /\ UNCHANGED resolverCache
     ELSE /\ resolverCache' = got.resolverCache
          /\ acall' = [acall EXCEPT
               !.pc = "awaitEngine",
               !.initialized = TRUE,
               !.request = [instance |-> got.instance,
                            dir |-> parentDir(n.parent), specifier |-> n.specifier],
               !.trace = @ \o << custom,
                                 Event("pool", input.context.conditions, <<>>, <<>>) >>]

\* resolve: the hook is called and awaits nextResolve(specifier, context)
resolveCall ==
  /\ acall.pc = "idle"
  /\ acall' = [acall EXCEPT
       !.pc = "awaitNative",
       !.trace = << Event("native", input.context.conditions, <<>>, input.specifier) >>]
  /\ UNCHANGED <<alias, resolver, resolverCache, input, scall, pathCache, pool, elide, probe>>

\* resolve: nextResolve settled; runs to the next await or to the end
resolveNativeSettled ==
  /\ acall.pc = "awaitNative"
  /\ LET first == input.nextResolve.first
         error == first.error
     IN IF first.kind = "return"
        THEN Finish(passThrough(first)) /\ UNCHANGED resolverCache
        ELSE IF ~isResolutionError(error)
        THEN Finish(Throw(error)) /\ UNCHANGED resolverCache
        ELSE IF isSkippedSpecifier(input.specifier)
        THEN Finish(Throw(error)) /\ UNCHANGED resolverCache
        ELSE IF normalizeFileUrlThrows(input.specifier, input.context.parentURL)
        THEN Finish(Throw(InvalidFileUrl)) /\ UNCHANGED resolverCache
        ELSE IF ~resolver
        THEN Finish(Throw(error)) /\ UNCHANGED resolverCache
        ELSE IF error.code = "ERR_PACKAGE_PATH_NOT_EXPORTED"
        THEN /\ acall' = [acall EXCEPT
                  !.pc = "awaitTypes", !.error = error, !.initialized = TRUE,
                  !.trace = @ \o << Event("native", input.context.conditions \o <<"types">>,
                                          <<>>, input.specifier) >>]
             /\ UNCHANGED resolverCache
        ELSE StartCustom(error)
  /\ UNCHANGED <<alias, resolver, input, scall, pathCache, pool, elide, probe>>

\* resolve: the nextResolve call of tryResolveTypeOnlyPackage settled
resolveTypesSettled ==
  /\ acall.pc = "awaitTypes"
  /\ IF input.nextResolve.types.kind = "return"
     THEN /\ Finish(Return(tryResolveTypeOnlyPackage(input.nextResolve.types.result)))
          /\ UNCHANGED resolverCache
     ELSE StartCustom(acall.error)
  /\ UNCHANGED <<alias, resolver, input, scall, pathCache, pool, elide, probe>>

\* resolve: the engine call of TypeScriptResolver.resolve settled
resolveEngineSettled ==
  /\ acall.pc = "awaitEngine"
  /\ LET rq == acall.request
         path == engineResolve(Files, rq.instance, rq.dir, rq.specifier)
         first == input.nextResolve.first
     IN acall' = [acall EXCEPT
          !.pc = "done",
          !.outcome = IF path # null THEN Return(formatResolvedResult(path))
                      ELSE Throw(first.error),
          !.trace = @ \o << Event("engine", rq.instance.conditionNames, rq.dir, rq.specifier) >>]
  /\ UNCHANGED <<alias, resolver, resolverCache, input, scall, pathCache, pool, elide, probe>>

\* resolveSync: the whole call
resolveSyncCall ==
  /\ scall.pc = "idle"
  /\ LET r == resolveSync(Files, resolver, resolverCache, input.specifier, input.context,
                          input.nextResolve)
     IN /\ scall' = [pc |-> "done", outcome |-> r.outcome, trace |-> r.trace,
                      initialized |-> resolver]
        /\ resolverCache' = r.resolverCache
  /\ UNCHANGED <<alias, resolver, input, acall, pathCache, pool, elide, probe>>

\* The host asks about another request.
nextRequest ==
  /\ acall.pc = "done"
  /\ scall.pc = "done"
  /\ input' \in Inputs
  /\ acall' = IdleAsync
  /\ scall' = IdleSync
  /\ UNCHANGED <<alias, resolver, resolverCache, pathCache, pool, elide, probe>>

Next ==
  \/ initialize
  \/ resolveCall
  \/ resolveNativeSettled
  \/ resolveTypesSettled
  \/ resolveEngineSettled
  \/ resolveSyncCall
  \/ nextRequest

Spec == Init /\ [][Next]_vars

(* ------------------------------------------------------------------ *)
(* ------------------------------------------------------------------ *)
(* Alias lookups of the resolution engine on their own                 *)
(* ------------------------------------------------------------------ *)

MaxAffixLen == 2

MaxSpecifierLen == 4

AliasAlphabet == {"a", "/"}

\* The strings over the alphabet of at most n characters.
AliasStrings(n) == UNION { [1..k -> AliasAlphabet] : k \in 0..n }

\* Patterns with one wildcard, exact patterns, and the pattern of the
\* path-aliases fixture.
AliasPatterns ==
  { pre \o <<"*">> \o suf : pre \in AliasStrings(MaxAffixLen), suf \in AliasStrings(MaxAffixLen) }
    \cup AliasStrings(MaxAffixLen) \cup {P_lib, S_utils, S_data}

AliasTemplates == { R_lib, R_utils, R_data, <<"*">>, <<"a">> }

AliasSpecifiers ==
  AliasStrings(MaxSpecifierLen) \cup {S_lib, S_utils, S_data, S_utils \o <<"/", "a">>}

\* The files of the project and two files the short templates can reach.
AliasFiles ==
  Files \cup { Root \o <<"/","l","i","b","/","a",".","t","s">>,
               Root \o <<"/","a",".","t","s">> }

AliasInit ==
  /\ resolver = FALSE
  /\ resolverCache = {}
  /\ input = CHOOSE i \in Inputs : TRUE
  /\ acall = IdleAsync
  /\ scall = IdleSync
  /\ alias \in { AliasLookup(pattern, template, specifier) :
                   pattern \in AliasPatterns, template \in AliasTemplates,
                   specifier \in AliasSpecifiers }
  /\ pathCache = EmptyPathCache
  /\ pool = EmptyPool
  /\ elide = NoLoad
  /\ probe = NoProbe

\* The engine looks the specifier up in an alias table of the one pattern;
\* the hook formats the path it finds.
matchAlias ==
  /\ alias.pc = "idle"
  /\ LET matched == matchPattern(alias.pattern, alias.specifier)
         table == << [pattern |-> alias.pattern, replacements |-> <<alias.template>>] >>
         path == resolveAlias(AliasFiles, extensions, Root, table, alias.specifier)
     IN alias' = [alias EXCEPT
          !.pc = "done",
          !.matched = matched,
          !.capture = IF matched THEN capture(alias.pattern, alias.specifier) ELSE <<>>,
          !.path = path,
          !.delivered = IF path # null THEN formatResolvedResult(path) ELSE NoResult]
  /\ UNCHANGED <<resolver, resolverCache, input, acall, scall, pathCache, pool, elide, probe>>

AliasNext == matchAlias

SpecAlias == AliasInit /\ [][AliasNext]_vars

(* ------------------------------------------------------------------ *)
(* The resolver with a path cache on its own                           *)
(* ------------------------------------------------------------------ *)

CacheInit ==
  /\ resolver = FALSE
  /\ resolverCache = {}
  /\ input = CHOOSE i \in Inputs : TRUE
  /\ acall = IdleAsync
  /\ scall = IdleSync
  /\ alias = AliasLookup(P_lib, R_lib, S_lib)
  /\ pathCache = EmptyPathCache
  /\ pool = EmptyPool
  /\ elide = NoLoad
  /\ probe = NoProbe

\* The state after a call of resolve that returned r.
AfterCachedResolve(specifier, parent, r) ==
  LET keysAfter == { r.cache[i].key : i \in 1..Len(r.cache) }
      evicted == { pathCache.cache[i] : i \in { j \in 1..Len(pathCache.cache) :
                                                pathCache.cache[j].key \notin keysAfter } }
      grew == \E i \in 1..Len(r.cache) : r.cache[i].at = pathCache.inserted + 1
      earlier == { c \in pathCache.seen : c.specifier = specifier /\ c.parent = parent }
  IN [cache |-> r.cache,
      inserted |-> IF grew THEN pathCache.inserted + 1 ELSE pathCache.inserted,
      last |-> [op |-> "resolve", specifier |-> specifier, parent |-> parent,
                result |-> r.result, probed |-> r.probed,
                repeat |-> earlier # {},
                earlier |-> IF earlier # {} THEN (CHOOSE c \in earlier : TRUE).result
                            ELSE null,
                evicted |-> evicted,
                evictedRead |-> \E e \in evicted : e.key \in pathCache.hits],
      seen |-> (IF evicted # {} THEN {} ELSE pathCache.seen)
                 \cup {[specifier |-> specifier, parent |-> parent, result |-> r.result]},
      hits |-> { k \in pathCache.hits : k \in keysAfter }
                 \cup (IF r.probed THEN {} ELSE {cacheKeyOf(specifier, parent)})]

\* A caller resolves a specifier from a parent.
cachedResolveCall ==
  /\ pathCache.inserted < MaxInserts
  /\ \E specifier \in CacheSpecifiers, parent \in CacheParents :
       \E r \in { cachedResolve(Files, pathCache.cache, specifier, parent,
                                pathCache.inserted + 1) } :
         pathCache' = AfterCachedResolve(specifier, parent, r)
  /\ UNCHANGED <<resolver, resolverCache, input, acall, scall, alias, pool, elide, probe>>

\* clearCache() of the resolver with a path cache
cachedClearCache ==
  /\ pathCache.cache # <<>>
  /\ pathCache' = [pathCache EXCEPT
       !.cache = cacheClear,
       !.last = [NoCacheCall EXCEPT !.op = "clear"],
       !.seen = {},
       !.hits = {}]
  /\ UNCHANGED <<resolver, resolverCache, input, acall, scall, alias, pool, elide, probe>>

CacheNext ==
  \/ cachedResolveCall
  \/ cachedClearCache

SpecCache == CacheInit /\ [][CacheNext]_vars

(* ------------------------------------------------------------------ *)
(* One TypeScriptResolver on its own: its pool and clearCache          *)
(* ------------------------------------------------------------------ *)

MaxInFlight == 2

\* The condition lists the hooks ask for, with and without types, and a
\* list of one condition whose name holds a comma.
PoolConditionLists ==
  ConditionLists \cup { c \o <<"types">> : c \in ConditionLists }
  \cup {<<"node,import">>}

PoolInit ==
  /\ resolver = TRUE
  /\ resolverCache = {}
  /\ input = CHOOSE i \in Inputs : TRUE
  /\ acall = IdleAsync
  /\ scall = IdleSync
  /\ alias = AliasLookup(P_lib, R_lib, S_lib)
  /\ pathCache = EmptyPathCache
  /\ pool = EmptyPool
  /\ elide = NoLoad
  /\ probe = NoProbe

\* TypeScriptResolver.resolve, to its await: the instance is selected.
poolResolveCall ==
  /\ Cardinality(pool.calls) < MaxInFlight
  /\ \E conditions \in PoolConditionLists :
       \E got \in { getResolverForConditions(resolverCache, conditions) } :
         /\ resolverCache' = got.resolverCache
         /\ pool' = [pool EXCEPT
              !.calls = @ \cup {[conditions |-> conditions, instance |-> got.instance]},
              !.last = "resolve"]
  /\ UNCHANGED <<resolver, input, acall, scall, alias, pathCache, elide, probe>>

\* TypeScriptResolver.resolve, after its await: the instance has answered
\* and holds the resolution in its cache.
poolResolveSettled ==
  /\ \E call \in pool.calls :
       pool' = [pool EXCEPT
         !.calls = @ \ {call},
         !.served = @ \cup {call},
         !.warm = @ \cup {call.instance},
         !.last = "settled"]
  /\ UNCHANGED <<resolver, resolverCache, input, acall, scall, alias, pathCache, elide, probe>>

\* clearCache that clears the base instance only
clearCacheBaseOnly ==
  /\ pool' = [pool EXCEPT
       !.warm = @ \ {baseResolver},
       !.cleared = pool.warm,
       !.last = "clearCache"]
  /\ UNCHANGED <<resolver, resolverCache, input, acall, scall, alias, pathCache, elide, probe>>

\* TypeScriptResolver.clearCache: the base instance, then every instance of
\* resolverCache
clearCache ==
  /\ pool' = [pool EXCEPT
       !.warm = (@ \ {baseResolver}) \ resolverCache,
       !.cleared = pool.warm,
       !.last = "clearCache"]
  /\ UNCHANGED <<resolver, resolverCache, input, acall, scall, alias, pathCache, elide, probe>>

PoolNext ==
  \/ poolResolveCall
  \/ poolResolveSettled
  \/ clearCache

SpecPool == PoolInit /\ [][PoolNext]_vars


(* ------------------------------------------------------------------ *)
(* The load hook as a state machine                                    *)
(* ------------------------------------------------------------------ *)

ElideInit ==
  /\ resolver = FALSE
  /\ resolverCache = {}
  /\ input = CHOOSE i \in Inputs : TRUE
  /\ acall = IdleAsync
  /\ scall = IdleSync
  /\ alias = AliasLookup(P_lib, R_lib, S_lib)
  /\ pathCache = EmptyPathCache
  /\ pool = EmptyPool
  /\ elide \in { ElideIdle(in, EmptyExportsCache) : in \in LoadInputs }
  /\ probe = NoProbe

\* load is called and awaits nextLoad(url, context)
loadCall ==
  /\ elide.phase = "idle"
  /\ elide' = [elide EXCEPT !.phase = "pending"]
  /\ UNCHANGED <<resolver, resolverCache, input, acall, scall, alias, pathCache, pool, probe>>

\* nextLoad has settled: the rest of the hook
loadSettled ==
  /\ elide.phase = "pending"
  /\ \E r \in { load(elide.in.result, parse(elide.in.decls, elide.in.errors),
                     elide.runtimeExportsCache) } :
       elide' = [elide EXCEPT !.phase = "returned",
                              !.returned = r.returned,
                              !.parsed = r.parsed,
                              !.modifications = r.modifications,
                              !.runtimeExportsCache = r.cache]
  /\ UNCHANGED <<resolver, resolverCache, input, acall, scall, alias, pathCache, pool, probe>>

\* the same module is loaded again, runtimeExportsCache as the first load left it
loadAgain ==
  /\ elide.phase = "returned"
  /\ elide' = ElideIdle(elide.in, elide.runtimeExportsCache)
  /\ UNCHANGED <<resolver, resolverCache, input, acall, scall, alias, pathCache, pool, probe>>

ElideNext == loadCall \/ loadSettled \/ loadAgain

SpecElide == ElideInit /\ [][ElideNext]_vars

(* ------------------------------------------------------------------ *)
(* getRuntimeExports as a state machine                                *)
(* ------------------------------------------------------------------ *)

ProbeInit ==
  /\ resolver = FALSE
  /\ resolverCache = {}
  /\ input = CHOOSE i \in Inputs : TRUE
  /\ acall = IdleAsync
  /\ scall = IdleSync
  /\ alias = AliasLookup(P_lib, R_lib, S_lib)
  /\ pathCache = EmptyPathCache
  /\ pool = EmptyPool
  /\ elide = NoLoad
  /\ probe = NoProbe

\* getRuntimeExports(specifier), to its return
getRuntimeExportsCall ==
  \E c \in 1..MaxCallers, specifier \in ProbeSpecifiers :
    /\ probe.callers[c].state = "idle"
    /\ \E found \in { lookupExports(probe.cache, probe.pending, specifier) } :
         \/ /\ found = "cached"
            /\ probe' = [probe EXCEPT
                 !.callers[c] = [state |-> "returned", specifier |-> specifier,
                                 on |-> NoProbeId,
                                 got |-> Fulfilled(probe.cache[specifier])]]
         \/ /\ found = "pending"
            /\ probe' = [probe EXCEPT
                 !.callers[c] = [state |-> "waiting", specifier |-> specifier,
                                 on |-> probe.pending[specifier], got |-> Rejected]]
         \/ /\ found = "probe"
            /\ probe.started[specifier] < MaxProbes
            /\ \E id \in { ProbeId(specifier, probe.started[specifier] + 1) } :
                 probe' = [probe EXCEPT
                   !.started[specifier] = @ + 1,
                   !.inflight = @ \cup {id},
                   !.pending = (specifier :> id) @@ @,
                   !.callers[c] = [state |-> "waiting", specifier |-> specifier,
                                   on |-> id, got |-> Rejected]]
    /\ UNCHANGED <<resolver, resolverCache, input, acall, scall, alias, pathCache, pool, elide>>

\* import(specifier) settles, were pendingImports cleaned up on success only
importSettledNoFinally ==
  \E id \in probe.inflight, failed \in BOOLEAN :
    /\ id.specifier \notin DOMAIN RuntimeModules => failed
    /\ \E o \in { probeOutcome(id.specifier, failed) } :
         probe' = [probe EXCEPT
           !.cache = IF o.stores THEN (id.specifier :> o.value) @@ @ ELSE @,
           !.pending = IF failed THEN @ ELSE [s \in DOMAIN @ \ {id.specifier} |-> @[s]],
           !.inflight = @ \ {id},
           !.settled = (id :> o.settlement) @@ @,
           !.failed = IF failed THEN @ \cup {id} ELSE @]
    /\ UNCHANGED <<resolver, resolverCache, input, acall, scall, alias, pathCache, pool, elide>>

\* import(specifier) settles, were the promise of a failed import left
\* pending
importSettledFailureHangs ==
  \E id \in probe.inflight, failed \in BOOLEAN :
    /\ id.specifier \notin DOMAIN RuntimeModules => failed
    /\ \E o \in { probeOutcome(id.specifier, failed) } :
         probe' = [probe EXCEPT
           !.cache = IF o.stores THEN (id.specifier :> o.value) @@ @ ELSE @,
           !.pending = [s \in DOMAIN @ \ {id.specifier} |-> @[s]],
           !.inflight = @ \ {id},
           !.settled = IF failed THEN @ ELSE (id :> o.settlement) @@ @,
           !.failed = IF failed THEN @ \cup {id} ELSE @]
    /\ UNCHANGED <<resolver, resolverCache, input, acall, scall, alias, pathCache, pool, elide>>

\* import(specifier) settles: the rest of the async function, its finally
\* included
importSettled ==
  \E id \in probe.inflight, failed \in BOOLEAN :
    /\ id.specifier \notin DOMAIN RuntimeModules => failed
    /\ \E o \in { probeOutcome(id.specifier, failed) } :
         probe' = [probe EXCEPT
           !.cache = IF o.stores THEN (id.specifier :> o.value) @@ @ ELSE @,
           !.pending = [s \in DOMAIN @ \ {id.specifier} |-> @[s]],
           !.inflight = @ \ {id},
           !.settled = (id :> o.settlement) @@ @,
           !.failed = IF failed THEN @ \cup {id} ELSE @]
    /\ UNCHANGED <<resolver, resolverCache, input, acall, scall, alias, pathCache, pool, elide>>

\* a caller awaiting the promise of a settled import goes on
getRuntimeExportsSettled ==
  \E c \in 1..MaxCallers :
    /\ probe.callers[c].state = "waiting"
    /\ probe.callers[c].on \in DOMAIN probe.settled
    /\ probe' = [probe EXCEPT !.callers[c].state = "returned",
                              !.callers[c].got = probe.settled[probe.callers[c].on]]
    /\ UNCHANGED <<resolver, resolverCache, input, acall, scall, alias, pathCache, pool, elide>>

\* a caller that has its answer is free to call again
callerDone ==
  \E c \in 1..MaxCallers :
    /\ probe.callers[c].state = "returned"
    /\ probe' = [probe EXCEPT !.callers[c] = IdleCaller]
    /\ UNCHANGED <<resolver, resolverCache, input, acall, scall, alias, pathCache, pool, elide>>

ProbeNext == getRuntimeExportsCall \/ importSettled \/ getRuntimeExportsSettled \/ callerDone

SpecProbe == ProbeInit /\ [][ProbeNext]_vars

(* ------------------------------------------------------------------ *)
(* The resolve hook in front of the resolver with a path cache         *)
(* ------------------------------------------------------------------ *)

\* storedBy: for each entry ever inserted, by its insertion number, the
\* specifier, parent and context.conditions of the hook call that stored it.
\* conditions: context.conditions of the last hook call.
HookCacheInit ==
  /\ resolver = FALSE
  /\ resolverCache = {}
  /\ input = CHOOSE i \in Inputs : TRUE
  /\ acall = IdleAsync
  /\ scall = IdleSync
  /\ alias = AliasLookup(P_lib, R_lib, S_lib)
  /\ pathCache = [storedBy |-> <<>>, conditions |-> <<>>] @@ EmptyPathCache
  /\ pool = EmptyPool
  /\ elide = NoLoad
  /\ probe = NoProbe

\* resolve(specifier, context, nextResolve) of the loader that owns a resolver
\* with a path cache, nextResolve having failed with ERR_MODULE_NOT_FOUND:
\* resolver.resolve(specifier, parentURL)
resolveThroughPathCache ==
  /\ pathCache.inserted < MaxInserts
  /\ \E specifier \in {S_lib, S_data}, parentURL \in CacheParents, conditions \in ConditionLists :
       \E r \in { cachedResolve(Files, pathCache.cache, specifier, parentURL,
                                pathCache.inserted + 1) } :
         \E after \in { AfterCachedResolve(specifier, parentURL, r) } :
           pathCache' =
             [storedBy |-> IF after.inserted > pathCache.inserted
                           THEN Append(pathCache.storedBy,
                                       [specifier |-> specifier, parent |-> parentURL,
                                        conditions |-> conditions])
                           ELSE pathCache.storedBy,
              conditions |-> conditions] @@ after
  /\ UNCHANGED <<resolver, resolverCache, input, acall, scall, alias, pool, elide, probe>>

HookCacheNext == resolveThroughPathCache

SpecHookCache == HookCacheInit /\ [][HookCacheNext]_vars
(* ------------------------------------------------------------------ *)
(* Lookups in alias tables of several patterns and replacements        *)
(* ------------------------------------------------------------------ *)

MaxPatterns == 2

MaxReplacements == 2

\* A prefix pattern, the catch-all pattern and an exact pattern: a/a matches
\* all three, a matches the catch-all only.
TablePatterns == { <<"a","/","*">>, <<"*">>, <<"a","/","a">> }

TableTemplates == { <<"x","/","*">>, <<"y","/","*">> }

\* The ordered replacement lists of a pattern.
ReplacementLists == UNION { [1..k -> TableTemplates] : k \in 1..MaxReplacements }

TableEntries ==
  { [pattern |-> p, replacements |-> r] : p \in TablePatterns, r \in ReplacementLists }

\* The alias tables: patterns in declared order, no pattern declared twice.
AliasTables ==
  UNION { { t \in [1..n -> TableEntries] :
              \A i, j \in 1..n : i # j => t[i].pattern # t[j].pattern }
          : n \in 1..MaxPatterns }

TableSpecifiers == { <<"a","/","a">>, <<"a">> }

\* The files the replacements can name, any of which may exist.
TableTargets ==
  { Root \o <<"/","x","/","a",".","t","s">>, Root \o <<"/","y","/","a",".","t","s">>,
    Root \o <<"/","x","/","a","/","a",".","t","s">> }

\* A lookup that has not run.
TableLookup(table, files, specifier) ==
  [pc |-> "idle", table |-> table, files |-> files, specifier |-> specifier, path |-> null]

AliasTableInit ==
  /\ resolver = FALSE
  /\ resolverCache = {}
  /\ input = CHOOSE i \in Inputs : TRUE
  /\ acall = IdleAsync
  /\ scall = IdleSync
  /\ alias \in { TableLookup(table, Files \cup present, specifier) :
                   table \in AliasTables, present \in SUBSET TableTargets,
                   specifier \in TableSpecifiers }
  /\ pathCache = EmptyPathCache
  /\ pool = EmptyPool
  /\ elide = NoLoad
  /\ probe = NoProbe

\* The engine looks the specifier up in the alias table.
resolveThroughAliasTable ==
  /\ alias.pc = "idle"
  /\ alias' = [alias EXCEPT
       !.pc = "done",
       !.path = resolveAlias(alias.files, extensions, Root, alias.table, alias.specifier)]
  /\ UNCHANGED <<resolver, resolverCache, input, acall, scall, pathCache, pool, elide, probe>>

AliasTableNext == resolveThroughAliasTable

SpecAliasTable == AliasTableInit /\ [][AliasTableNext]_vars

(* ------------------------------------------------------------------ *)
(* The hooks and getRuntimeExports with their awaited calls settling   *)
(* ------------------------------------------------------------------ *)

\* the request the native resolver refuses with package-path-not-exported
\* and refuses again with the types condition: the hook awaits the native
\* call, the types retry and the engine in turn
LiveInputs ==
  { i \in Inputs :
      /\ i.specifier = S_lib
      /\ i.context.parentURL = U_main
      /\ i.context.conditions = <<"node", "import">>
      /\ i.nextResolve.first.kind = "throw"
      /\ i.nextResolve.first.error.isError
      /\ i.nextResolve.first.error.code = "ERR_PACKAGE_PATH_NOT_EXPORTED"
      /\ i.nextResolve.types.kind = "throw" }

\* `import { p, q } from "pg"` in a typed module
LiveLoads ==
  { [decls |-> <<PlainDeclaration>>, errors |-> FALSE,
     result |-> LoadResult("module-typescript",
                           StringSource(sourceText(<<PlainDeclaration>>)))] }

LiveInit ==
  /\ resolver = FALSE
  /\ resolverCache = {}
  /\ input \in LiveInputs
  /\ acall = IdleAsync
  /\ scall = IdleSync
  /\ alias = AliasLookup(P_lib, R_lib, S_lib)
  /\ pathCache = EmptyPathCache
  /\ pool = EmptyPool
  /\ elide \in { ElideIdle(in, EmptyExportsCache) : in \in LiveLoads }
  /\ probe = NoProbe

\* the host loads a module once its specifier is resolved
loadResolved ==
  /\ acall.pc = "done"
  /\ acall.outcome.kind = "return"
  /\ loadCall

LiveNext ==
  \/ initialize
  \/ resolveCall
  \/ resolveNativeSettled
  \/ resolveTypesSettled
  \/ resolveEngineSettled
  \/ loadResolved
  \/ loadSettled
  \/ getRuntimeExportsCall
  \/ importSettled
  \/ getRuntimeExportsSettled

\* the event loop resumes caller c once the promise it awaits has settled
callerResumed(c) ==
  /\ probe.callers[c].state = "waiting"
  /\ getRuntimeExportsSettled
  /\ probe'.callers[c].state = "returned"

\* Weak fairness of resolveNativeSettled, resolveTypesSettled,
\* resolveEngineSettled and loadSettled, with ENABLED written out: each is
\* enabled exactly while the hook is at that await, and each leaves it.
nativeCallSettles ==
  []<>(acall.pc # "awaitNative") \/ []<><<resolveNativeSettled>>_vars

typesCallSettles ==
  []<>(acall.pc # "awaitTypes") \/ []<><<resolveTypesSettled>>_vars

engineCallSettles ==
  []<>(acall.pc # "awaitEngine") \/ []<><<resolveEngineSettled>>_vars

nextLoadSettles ==
  []<>(elide.phase # "pending") \/ []<><<loadSettled>>_vars

\* what resolve and getRuntimeExports await settles, and the continuation
\* of a settled promise runs; nothing is said of nextLoad
AwaitedCallsSettle ==
  /\ nativeCallSettles
  /\ typesCallSettles
  /\ engineCallSettles
  /\ WF_vars(importSettled)
  /\ \A c \in 1..MaxCallers : WF_vars(callerResumed(c))

SpecLive == LiveInit /\ [][LiveNext]_vars /\ AwaitedCallsSettle

(* ------------------------------------------------------------------ *)
(* The ResolverCache on its own, under every configured bound          *)
(* ------------------------------------------------------------------ *)

\* the keys resolve forms, `${specifier}:${parent}`, and the paths it stores
CacheKeys == { cacheKeyOf(specifier, U_main) : specifier \in {S_mod, S_lib, S_data} }

CachePaths == {F_helper, F_data}

\* new ResolverCache(maxSize). last: the last operation, what a get
\* returned and how many entries a set removed.
NewResolverCache(maxSize) ==
  [cache |-> <<>>, maxSize |-> maxSize, inserted |-> 0,
   last |-> [op |-> "none", key |-> <<>>, got |-> undefined, evicted |-> 0]]

\* new TypeScriptResolver({ cacheSize }) for every cacheSize up to MaxSize
CacheSizeInit ==
  /\ resolver = FALSE
  /\ resolverCache = {}
  /\ input = CHOOSE i \in Inputs : TRUE
  /\ acall = IdleAsync
  /\ scall = IdleSync
  /\ alias = AliasLookup(P_lib, R_lib, S_lib)
  /\ pathCache \in { NewResolverCache(maxSize) : maxSize \in 0..MaxSize }
  /\ pool = EmptyPool
  /\ elide = NoLoad
  /\ probe = NoProbe

\* cache.set(key, value)
setCall ==
  /\ pathCache.inserted < MaxInserts
  /\ \E key \in CacheKeys, value \in CachePaths :
       \E after \in { cacheSetWithin(pathCache.maxSize, pathCache.cache, key, value,
                                     pathCache.inserted + 1) } :
         pathCache' = [pathCache EXCEPT
           !.cache = after,
           !.inserted = @ + 1,
           !.last = [op |-> "set", key |-> key, got |-> undefined,
                     evicted |-> Cardinality({ i \in 1..Len(pathCache.cache) :
                                    /\ pathCache.cache[i].key # key
                                    /\ ~MapHas(after, pathCache.cache[i].key) })]]
  /\ UNCHANGED <<resolver, resolverCache, input, acall, scall, alias, pool, elide, probe>>

\* cache.get(key)
getCall ==
  /\ \E key \in CacheKeys :
       pathCache' = [pathCache EXCEPT
         !.last = [op |-> "get", key |-> key, got |-> cacheGet(pathCache.cache, key),
                   evicted |-> 0]]
  /\ UNCHANGED <<resolver, resolverCache, input, acall, scall, alias, pool, elide, probe>>

\* cache.clear()
clearCall ==
  /\ pathCache' = [pathCache EXCEPT
       !.cache = cacheClear,
       !.last = [op |-> "clear", key |-> <<>>, got |-> undefined, evicted |-> 0]]
  /\ UNCHANGED <<resolver, resolverCache, input, acall, scall, alias, pool, elide, probe>>

CacheSizeNext == setCall \/ getCall \/ clearCall

SpecCacheSize == CacheSizeInit /\ [][CacheSizeNext]_vars

(* ------------------------------------------------------------------ *)
(* Properties of the resolve hooks                                     *)
(* ------------------------------------------------------------------ *)

\* The native resolver's answer to the first call of the current request.
First == input.nextResolve.first

\* The one capability a call used that only asked the native resolver.
NativeOnly == << Event("native", input.context.conditions, <<>>, input.specifier) >>

\* The native failure carries one of the five recoverable codes.
RecoverableFailure ==
  /\ First.kind = "throw"
  /\ First.error.isError
  /\ First.error.hasCode
  /\ First.error.code \in RecoverableCodes

\* The specifier names a builtin module, a network URL or a data URL.
DenotesBuiltinOrRemote(specifier) ==
  \E prefix \in {NodePrefix, HttpPrefix, HttpsPrefix, DataPrefix} : StartsWith(specifier, prefix)

\* A call used the fallback path: the retry with the types condition or the
\* custom resolver.
UsedFallback(trace) ==
  \E i \in 1..Len(trace) :
    \/ trace[i].op \in {"custom", "pool", "engine"}
    \/ trace[i].op = "native" /\ trace[i].conditions # input.context.conditions

\* C1: when nativeResolve succeeds, resolve and resolveSync return exactly
\* the result it returned, after asking nothing but the native resolver, and
\* no step of such a request changes the resolver pool.
C1_NativeSuccessPassThrough ==
  /\ [](First.kind = "return" =>
          /\ acall.pc = "done" => acall.outcome = First /\ acall.trace = NativeOnly
          /\ scall.pc = "done" => scall.outcome = First /\ scall.trace = NativeOnly)
  /\ [][First.kind = "return" => resolverCache' = resolverCache]_vars

C1_Witness ==
  /\ First.kind = "return"
  /\ acall.pc = "done"
  /\ scall.pc = "done"
  /\ resolver
  /\ resolverCache # {}

\* C2: a native failure whose code is none of the five recoverable codes, or
\* that carries no code, is rethrown as it is by both hooks, and the
\* fallback path is not entered.
C2_UnclassifiedRethrown ==
  (First.kind = "throw" /\ (~First.error.hasCode \/ First.error.code \notin RecoverableCodes)) =>
    /\ acall.pc = "done" => acall.outcome = Throw(First.error) /\ acall.trace = NativeOnly
    /\ scall.pc = "done" => scall.outcome = Throw(First.error) /\ scall.trace = NativeOnly

C2_Witness ==
  /\ First.kind = "throw"
  /\ First.error.code = "EACCES"
  /\ input.specifier = S_mod
  /\ resolver
  /\ acall.pc = "done"
  /\ scall.pc = "done"

\* C3: every error that leaves resolve or resolveSync is the error the first
\* nativeResolve call raised.
C3_OnlyOriginalErrorEscapes ==
  /\ (acall.pc = "done" /\ acall.outcome.kind = "throw") => acall.outcome.error = First.error
  /\ (scall.pc = "done" /\ scall.outcome.kind = "throw") => scall.outcome.error = First.error

\* C4: with an initialized resolver and a specifier that is no builtin,
\* network URL or data URL, both hooks enter the fallback for each of the
\* five recoverable codes.
C4_RecoverableEntersFallback ==
  (RecoverableFailure /\ ~DenotesBuiltinOrRemote(input.specifier)) =>
    /\ (acall.pc = "done" /\ acall.initialized) => UsedFallback(acall.trace)
    /\ (scall.pc = "done" /\ scall.initialized) => UsedFallback(scall.trace)

C6_HooksAgree ==
  (acall.pc = "done" /\ scall.pc = "done" /\ acall.initialized = scall.initialized) =>
    acall.outcome = scall.outcome

\* C7: every result a hook returns after a native failure has shortCircuit
\* set.
C7_FallbackShortCircuits ==
  First.kind = "throw" =>
    /\ (acall.pc = "done" /\ acall.outcome.kind = "return") => acall.outcome.result.shortCircuit
    /\ (scall.pc = "done" /\ scall.outcome.kind = "return") => scall.outcome.result.shortCircuit

C7_Witness ==
  /\ First.kind = "throw"
  /\ acall.pc = "done"
  /\ acall.outcome.kind = "return"
  /\ acall.outcome.result.format = "undefined"
  /\ scall.pc = "done"
  /\ scall.outcome.kind = "return"

\* The delivery formats by extension: <<extension, format, importAttributes>>.
FormatTable ==
  { <<ExtJson, "json", {<<"type", "json">>}>>,
    <<ExtWasm, "wasm", {<<"type", "wasm">>}>>,
    <<ExtMts, "module-typescript", undefinedAttributes>>,
    <<ExtCts, "commonjs-typescript", undefinedAttributes>> }

\* The result is the formatting of the path by its extension alone.
FormattedByExtension(path, result) ==
  /\ result.url = pathToFileURL(path)
  /\ \A row \in FormatTable :
       EndsWith(path, row[1]) => result.format = row[2] /\ result.importAttributes = row[3]
  /\ (\A row \in FormatTable : ~EndsWith(path, row[1])) =>
       result.format = "undefined" /\ result.importAttributes = undefinedAttributes

\* A call returned the path its last engine call found under the request's
\* own conditions.
ReturnedCustom(call) ==
  /\ call.pc = "done"
  /\ call.outcome.kind = "return"
  /\ Len(call.trace) > 1
  /\ call.trace[Len(call.trace)].op = "engine"
  /\ call.trace[Len(call.trace) - 1].conditions = input.context.conditions

\* The path the last engine call of a call found.
CustomPath(call) ==
  LET ev == call.trace[Len(call.trace)]
  IN engineResolve(Files, [conditionNames |-> ev.conditions, extensions |-> extensions],
                   ev.dir, ev.specifier)

\* C8: a custom-resolved path is formatted by its extension alone: .json and
\* .wasm with format and type attribute, .mts and .cts with their format,
\* everything else (.d.ts and .ts too) without either; the url is the file
\* URL of the path.
C8_FormatByExtension ==
  /\ ReturnedCustom(acall) => FormattedByExtension(CustomPath(acall), acall.outcome.result)
  /\ ReturnedCustom(scall) => FormattedByExtension(CustomPath(scall), scall.outcome.result)

C8_Witness ==
  /\ ReturnedCustom(acall)
  /\ ReturnedCustom(scall)
  /\ acall.outcome.result.format = "module-typescript"
  /\ scall.outcome.result.format = "module-typescript"

\* The types retry of the current request found a declaration file in a
\* dependency directory.
TypesRetryFindsDeclaration ==
  /\ input.nextResolve.types.kind = "return"
  /\ EndsWith(input.nextResolve.types.result.url, ExtDts)
  /\ Includes(input.nextResolve.types.result.url, NodeModulesSeg)

\* A call that reached the package-path-not-exported branch retried through
\* the native resolver with types appended, and returned the empty module at
\* once when that retry found a declaration file in a dependency directory.
RetriedNatively(call) ==
  /\ Len(call.trace) >= 2
  /\ call.trace[2] = Event("native", input.context.conditions \o <<"types">>, <<>>,
                           input.specifier)
  /\ TypesRetryFindsDeclaration =>
       call.outcome = Return(EmptyModule) /\ Len(call.trace) = 2

\* C9: after package-path-not-exported the hooks first retry through the
\* native resolver with types appended after the active conditions, and a
\* declaration file in a dependency directory gives the empty module at
\* once, the custom resolver not consulted.
C9_TypesRetryThroughNative ==
  (RecoverableFailure /\ First.error.code = "ERR_PACKAGE_PATH_NOT_EXPORTED"
   /\ ~DenotesBuiltinOrRemote(input.specifier)
   /\ ~normalizeFileUrlThrows(input.specifier, input.context.parentURL)) =>
    /\ (acall.pc = "done" /\ acall.initialized) => RetriedNatively(acall)
    /\ (scall.pc = "done" /\ scall.initialized) => RetriedNatively(scall)

\* The pattern is prefix, one wildcard, suffix.
SplitsAt(pattern, prefix, suffix) == pattern = prefix \o <<"*">> \o suffix

\* The specifier starts with the prefix, ends with the suffix and is at least
\* as long as the two together.
Fits(prefix, suffix, specifier) ==
  /\ Len(specifier) >= Len(prefix) + Len(suffix)
  /\ SubSeq(specifier, 1, Len(prefix)) = prefix
  /\ SubSeq(specifier, Len(specifier) - Len(suffix) + 1, Len(specifier)) = suffix

\* The base directory joined with the template, the capture at its wildcard
\* (the template itself when it has none).
Substituted(template, cap) ==
  Root \o <<"/">> \o
    (IF \E i \in 1..Len(template) : template[i] = "*"
     THEN LET i == CHOOSE j \in 1..Len(template) : template[j] = "*"
          IN SubSeq(template, 1, i - 1) \o cap \o SubSeq(template, i + 1, Len(template))
     ELSE template)

\* C10: a pattern with one wildcard matches a specifier exactly when the
\* specifier starts with the text before the wildcard, ends with the text
\* after it and is at least as long as both; the capture is the text between
\* them; a found path is a file at the base directory joined with the
\* template, the capture at its wildcard; and @lib/* -> lib/* resolves
\* @lib/helper to a path ending in lib/helper.ts.
C10_WildcardAliasMatching ==
  alias.pc = "done" =>
    /\ \A i \in 1..Len(alias.pattern) :
         LET prefix == SubSeq(alias.pattern, 1, i - 1)
             suffix == SubSeq(alias.pattern, i + 1, Len(alias.pattern))
         IN SplitsAt(alias.pattern, prefix, suffix) =>
              /\ alias.matched <=> Fits(prefix, suffix, alias.specifier)
              /\ alias.matched =>
                   /\ alias.specifier = prefix \o alias.capture \o suffix
                   /\ alias.path # null =>
                        /\ alias.path \in AliasFiles
                        /\ StartsWith(alias.path, Substituted(alias.template, alias.capture))
              /\ ~alias.matched => alias.path = null
    /\ (alias.pattern = P_lib /\ alias.template = R_lib /\ alias.specifier = S_lib) =>
         /\ alias.matched
         /\ alias.path # null
         /\ EndsWith(alias.path, <<"l","i","b","/","h","e","l","p","e","r",".","t","s">>)

C10_Witness ==
  /\ alias.pc = "done"
  /\ alias.pattern = P_lib
  /\ alias.template = R_lib
  /\ alias.specifier = S_lib
  /\ alias.matched
  /\ alias.capture = <<"h","e","l","p","e","r">>
  /\ alias.path = F_helper

\* C11: a pattern without a wildcard matches a specifier only when the two
\* are equal, with an empty capture, so a specifier that only starts with the
\* pattern gets no path; @utils -> lib/helper.ts resolves @utils to
\* lib/helper.ts, and an alias to a .json file is delivered as json with the
\* type attribute.
C11_ExactAliasMatching ==
  alias.pc = "done" =>
    /\ (\A i \in 1..Len(alias.pattern) : alias.pattern[i] # "*") =>
         /\ alias.matched <=> alias.specifier = alias.pattern
         /\ alias.matched => alias.capture = <<>>
         /\ alias.specifier # alias.pattern =>
              alias.path = null /\ alias.delivered = NoResult
    /\ (alias.pattern = S_utils /\ alias.template = R_utils /\ alias.specifier = S_utils) =>
         alias.path = F_helper
    /\ (alias.pattern = S_data /\ alias.template = R_data /\ alias.specifier = S_data) =>
         /\ alias.path = F_data
         /\ alias.delivered.format = "json"
         /\ alias.delivered.importAttributes = {<<"type", "json">>}

C11_Witness ==
  /\ alias.pc = "done"
  /\ alias.pattern = S_data
  /\ alias.template = R_data
  /\ alias.specifier = S_data
  /\ alias.matched
  /\ alias.delivered.format = "json"

\* A call ended with an engine lookup of ./module from the directory that
\* holds both module.ts and module.js.
ResolvedModuleFromSibling(call) ==
  /\ call.pc = "done"
  /\ Len(call.trace) > 0
  /\ call.trace[Len(call.trace)].op = "engine"
  /\ call.trace[Len(call.trace)].specifier = S_mod
  /\ call.trace[Len(call.trace)].dir \o <<"/">> \o <<"m","o","d","u","l","e">> \o ExtTs = F_module_ts
  /\ call.trace[Len(call.trace)].dir \o <<"/">> \o <<"m","o","d","u","l","e">> \o ExtJs = F_module_js

\* C12: the default instance and every pooled instance try the extensions
\* .ts, .tsx, .js, .jsx, .mjs, .cjs, .json in this order, and ./module
\* resolved from a sibling of module.ts and module.js gives module.ts under
\* every condition list.
C12_ExtensionTryOrder ==
  /\ \A r \in resolverCache \cup {baseResolver} :
       r.extensions = <<ExtTs, ExtTsx, ExtJs, ExtJsx, ExtMjs, ExtCjs, ExtJson>>
  /\ {F_module_ts, F_module_js} \subseteq Files
  /\ ResolvedModuleFromSibling(acall) =>
       acall.outcome.kind = "return" /\ acall.outcome.result.url = pathToFileURL(F_module_ts)
  /\ ResolvedModuleFromSibling(scall) =>
       scall.outcome.kind = "return" /\ scall.outcome.result.url = pathToFileURL(F_module_ts)

C12_Witness ==
  /\ input.context.conditions = <<"node", "require">>
  /\ ResolvedModuleFromSibling(acall)
  /\ ResolvedModuleFromSibling(scall)
  /\ \E r \in resolverCache : r.conditionNames = <<"node", "require">>
  /\ acall.outcome.result.url = pathToFileURL(F_module_ts)

\* The last call repeats an earlier call, with no clear and no eviction since.
RepeatedCall == pathCache.last.op = "resolve" /\ pathCache.last.repeat

C15_ClearCacheReachesEveryInstance ==
  /\ pool.warm \subseteq {baseResolver} \cup resolverCache
  /\ pool.last = "clearCache" => pool.warm = {}

C15_Witness ==
  /\ pool.last = "clearCache"
  /\ baseResolver \in pool.cleared
  /\ Cardinality(pool.cleared \cap resolverCache) >= 2

\* The calls of TypeScriptResolver.resolve so far.
PoolCalls == pool.calls \cup pool.served

\* C16: there is at most one pooled instance for each condition list, made
\* when the list is first asked for and never removed or replaced; every
\* call for a list uses that instance; the default list uses the base
\* instance, which is never in the pool.
C16_OneInstancePerConditions ==
  /\ [](/\ \A r1, r2 \in resolverCache : r1.conditionNames = r2.conditionNames => r1 = r2
        /\ \A r \in resolverCache :
             /\ r.conditionNames # DefaultConditions
             /\ \E u \in PoolCalls : u.conditions = r.conditionNames
        /\ \A u \in PoolCalls :
             /\ u.conditions = DefaultConditions => u.instance = baseResolver
             /\ u.instance \in resolverCache \cup {baseResolver}
        /\ \A u1, u2 \in PoolCalls : u1.conditions = u2.conditions => u1.instance = u2.instance)
  /\ [][resolverCache \subseteq resolverCache']_vars

C16_Witness ==
  /\ Cardinality(resolverCache) = 3
  /\ Cardinality(pool.calls) = 2
  /\ \E u \in pool.calls, v \in pool.served :
       u.conditions = v.conditions /\ u.conditions # DefaultConditions
  /\ \E u \in pool.served : u.instance = baseResolver


(* ------------------------------------------------------------------ *)
(* Properties of the load hook                                         *)
(* ------------------------------------------------------------------ *)

\* the load hook has returned
Loaded == elide.phase = "returned"

\* the source nextLoad handed over is missing
SourceMissing == elide.in.result.source.type \in {"null", "undefined"}

\* the source holds a named import the package does not export at runtime
HoldsTypeOnlyImport ==
  \E i \in 1..Len(elide.in.decls) :
    /\ elide.in.decls[i].source = Pkg_pg
    /\ elide.in.decls[i].importKind = "value"
    /\ \E j \in 1..Len(elide.in.decls[i].named) :
         /\ elide.in.decls[i].named[j].importKind = "value"
         /\ "name" \in DOMAIN elide.in.decls[i].named[j].imported
         /\ elide.in.decls[i].named[j].imported.name \notin RuntimeModules[Pkg_pg]

\* C17: load returns what nextLoad returned, without parsing it, unless the
\* format is module-typescript and a source is present; whatever it returns
\* differs from nextLoad's result in the source field at most.
C17_LoadPassesThrough ==
  Loaded =>
    /\ (elide.in.result.format # "module-typescript" \/ SourceMissing) =>
         /\ elide.returned = elide.in.result
         /\ ~elide.parsed
         /\ elide.modifications = <<>>
    /\ [elide.returned EXCEPT !.source = elide.in.result.source] = elide.in.result
    /\ elide.returned # elide.in.result =>
         /\ elide.parsed
         /\ elide.returned.source.data # toString(elide.in.result.source)

\* a CommonJS typed source with a type-only import came back as it was
C17_Witness ==
  /\ Loaded
  /\ elide.in.result.format = "commonjs-typescript"
  /\ ~SourceMissing
  /\ ~elide.in.errors
  /\ HoldsTypeOnlyImport
  /\ elide.returned = elide.in.result

\* The one declaration of a module-typescript source that imports from pg
\* and was introspected.
Introspected ==
  /\ Loaded
  /\ elide.parsed
  /\ ~elide.in.errors
  /\ Len(elide.in.decls) = 1
  /\ elide.in.decls[1].source = Pkg_pg
  /\ elide.in.decls[1].importKind = "value"

TheDeclaration == elide.in.decls[1]

TheNode == declarationNode(TheDeclaration, 0)

\* what follows the first */ of s; nothing when there is none
RECURSIVE AfterCommentEnd(_)
AfterCommentEnd(s) ==
  IF Len(s) < 2 THEN <<>>
  ELSE IF s[1] = "*" /\ s[2] = "/" THEN SubSeq(s, 3, Len(s))
  ELSE AfterCommentEnd(Tail(s))

\* s without its whitespace and its block comments
RECURSIVE Squeeze(_)
Squeeze(s) ==
  IF Len(s) = 0 THEN <<>>
  ELSE IF StartsWith(s, <<"/", "*">>) THEN Squeeze(AfterCommentEnd(SubSeq(s, 3, Len(s))))
  ELSE (IF Head(s) \in Whitespace THEN <<>> ELSE <<Head(s)>>) \o Squeeze(Tail(s))

\* the pieces of s between its commas
RECURSIVE SplitAtCommas(_)
SplitAtCommas(s) ==
  IF IndexOf(s, ",") = -1 THEN <<s>>
  ELSE <<SliceTo(s, 0, IndexOf(s, ","))>> \o SplitAtCommas(Slice(s, IndexOf(s, ",") + 1))

\* The specifiers a rewritten declaration still lists between its braces,
\* without their whitespace; none when it was commented out or lost its
\* brace clause.
ListedSpecifiers(text) ==
  IF StartsWith(text, CommentOpen) \/ IndexOf(text, "{") = -1 THEN {}
  ELSE LET inner == Slice(text, IndexOf(text, "{") + 1)
           clause == IF IndexOf(inner, "}") = -1 THEN inner
                     ELSE SliceTo(inner, 0, IndexOf(inner, "}"))
           pieces == SplitAtCommas(Squeeze(clause))
       IN { pieces[i] : i \in 1..Len(pieces) }

\* the name a specifier imports from the target module
ExportedName(spec) ==
  IF "name" \in DOMAIN spec.imported THEN spec.imported.name ELSE spec.imported.value

\* the specifier is still listed by the source the hook returned
Kept(spec) == Squeeze(specifierText(spec)) \in ListedSpecifiers(elide.returned.source.data)

\* C18: in an introspected declaration a named specifier not marked type-only
\* is removed exactly when the name it imports from the package is not among
\* the package's runtime exports.
C18_RemovedIffNotExported ==
  Introspected =>
    \A i \in 1..Len(TheDeclaration.named) :
      TheDeclaration.named[i].importKind # "type" =>
        (~Kept(TheDeclaration.named[i])
           <=> ExportedName(TheDeclaration.named[i]) \notin RuntimeModules[Pkg_pg])

\* the named specifiers of the declaration that filterTypeOnlyImports marks
Marked ==
  { i \in 1..Len(TheDeclaration.named) :
      \E m \in { specifiersToRemove(TheNode, exportsSet(RuntimeModules[Pkg_pg]))[k].start :
                   k \in 1..Len(specifiersToRemove(TheNode, exportsSet(RuntimeModules[Pkg_pg]))) } :
        m = TheNode.specifiers[i + (IF TheDeclaration.default THEN 1 ELSE 0)].start }

\* the declaration with its marked specifiers left out
Unmarked ==
  [TheDeclaration EXCEPT
     !.named = SelectSeq(TheDeclaration.named,
                         LAMBDA spec : \A i \in Marked : TheDeclaration.named[i] # spec)]

\* C19: when some but not all named specifiers of a declaration are marked,
\* the rewritten declaration is the original one with exactly the unmarked
\* specifiers in its brace clause, in their order, separated by single
\* commas, its closing brace and from clause in place.
C19_PartialRemovalKeepsListValid ==
  (Introspected /\ Marked # {} /\ Cardinality(Marked) < Len(TheDeclaration.named)) =>
    Squeeze(elide.returned.source.data) = Squeeze(declarationText(Unmarked))

\* C20: when every named specifier of a declaration with a default import is
\* marked, the rewritten declaration is the default import followed by the
\* original from clause.
C20_NamedClauseRemoved ==
  (Introspected /\ TheDeclaration.default /\ Cardinality(Marked) = Len(TheDeclaration.named)) =>
    elide.returned.source.data =
      KwImport \o DefaultBinding \o KwFrom \o <<"\"">> \o TheDeclaration.source \o <<"\"">>
      \o (IF TheDeclaration.attributes THEN KwWith ELSE <<>>)

\* The one declaration of a module-typescript source, from a package whose
\* runtime exports were obtained, has no default import and all its named
\* specifiers are marked.
OnlyTypeOnlyImports ==
  /\ Loaded
  /\ elide.parsed
  /\ ~elide.in.errors
  /\ Len(elide.in.decls) = 1
  /\ TheDeclaration.importKind = "value"
  /\ TheDeclaration.source \in DOMAIN RuntimeModules
  /\ ~TheDeclaration.default
  /\ Len(specifiersToRemove(TheNode, exportsSet(RuntimeModules[TheDeclaration.source])))
       = Len(TheDeclaration.named)

\* C21: a declaration without default import whose named specifiers are all
\* marked is replaced, whole, by one comment that holds its original text:
\* nothing of the returned source is code any more.  The runtime export set
\* may be empty.
C21_WholeDeclarationCommentedOut ==
  OnlyTypeOnlyImports =>
    /\ elide.returned.source.data
         = CommentOpen \o declarationText(TheDeclaration) \o CommentClose
    /\ Squeeze(elide.returned.source.data) = <<>>

\* the nodes of the source the hook parsed
TheBody == programBody(elide.in.decls, 0)

\* the source the hook parsed
TheSource == toString(elide.in.result.source)

\* the declaration is external and its package cannot be imported
IntrospectedNull(node) ==
  /\ ~skipsDeclaration(node)
  /\ node.source.value \notin DOMAIN RuntimeModules

\* the edits of a declaration whose runtime exports were obtained
EditsOf(node) ==
  IF skipsDeclaration(node) \/ IntrospectedNull(node) THEN {}
  ELSE LET edits == declarationModifications(TheSource, node,
                                             exportsSet(RuntimeModules[node.source.value]))
       IN { edits[k] : k \in 1..Len(edits) }

\* C22: a declaration whose package yields null gets no edit, the other
\* declarations of the source get theirs, before and after it, and the hook
\* returns a result.
C22_FailOpen ==
  (Loaded /\ elide.parsed /\ ~elide.in.errors) =>
    /\ \A i \in 1..Len(TheBody) :
         IntrospectedNull(TheBody[i]) =>
           \A k \in 1..Len(elide.modifications) :
             \/ elide.modifications[k].end <= TheBody[i].start
             \/ elide.modifications[k].start >= TheBody[i].end
    /\ { elide.modifications[k] : k \in 1..Len(elide.modifications) }
         = UNION { EditsOf(TheBody[i]) : i \in 1..Len(TheBody) }
    /\ elide.returned.format = elide.in.result.format
    /\ elide.returned.source.type \in {"string", "Buffer"}

\* the first declaration imports a package that cannot be imported, the
\* second one is edited
C22_Witness ==
  /\ Loaded
  /\ elide.parsed
  /\ Len(TheBody) = 2
  /\ IntrospectedNull(TheBody[1])
  /\ EditsOf(TheBody[2]) # {}
  /\ Len(elide.modifications) > 0
  /\ elide.returned.source.data
       = declarationText(elide.in.decls[1]) \o <<"\n">> \o CommentOpen
         \o declarationText(elide.in.decls[2]) \o CommentClose

(* ------------------------------------------------------------------ *)
(* Properties of getRuntimeExports                                     *)
(* ------------------------------------------------------------------ *)

\* the callers awaiting the import
WaitingOn(id) ==
  { c \in 1..MaxCallers : probe.callers[c].state = "waiting" /\ probe.callers[c].on = id }

\* C23: however calls of getRuntimeExports and settling imports interleave,
\* at most one import is ever started per specifier, and every caller that
\* waits awaits that one import and gets what its promise settled to.
C23_OneProbePerSpecifier ==
  /\ \A s \in ProbeSpecifiers : probe.started[s] <= 1
  /\ \A c \in 1..MaxCallers :
       /\ probe.callers[c].state = "waiting" =>
            /\ probe.callers[c].on = ProbeId(probe.callers[c].specifier, 1)
            /\ probe.callers[c].on \in probe.inflight \cup DOMAIN probe.settled
       /\ (probe.callers[c].state = "returned" /\ probe.callers[c].on # NoProbeId) =>
            /\ probe.callers[c].on = ProbeId(probe.callers[c].specifier, 1)
            /\ probe.callers[c].got = probe.settled[probe.callers[c].on]

\* every caller asked for pg while its one import was in flight
C23_Witness ==
  /\ probe.started[Pkg_pg] = 1
  /\ ProbeId(Pkg_pg, 1) \in probe.inflight
  /\ WaitingOn(ProbeId(Pkg_pg, 1)) = 1..MaxCallers

\* C24: a failed import leaves null in runtimeExportsCache for its
\* specifier, every caller that awaited it gets null, and no caller gets a
\* rejection.
C24_ProbeFailureAbsorbed ==
  /\ \A id \in probe.failed :
       /\ id.specifier \in DOMAIN probe.cache
       /\ probe.cache[id.specifier] = nullExports
       /\ probe.settled[id] = Fulfilled(nullExports)
  /\ \A c \in 1..MaxCallers :
       probe.callers[c].state = "returned" =>
         /\ probe.callers[c].got.status = "fulfilled"
         /\ probe.callers[c].on \in probe.failed => probe.callers[c].got.value = nullExports

\* two callers awaited the import of pg, it failed, and both got null
C24_Witness ==
  /\ ProbeId(Pkg_pg, 1) \in probe.failed
  /\ Cardinality({ c \in 1..MaxCallers :
                     /\ probe.callers[c].state = "returned"
                     /\ probe.callers[c].on = ProbeId(Pkg_pg, 1)
                     /\ probe.callers[c].got = Fulfilled(nullExports) }) >= 2

\* C25: the edits collected in one pass over a source lie inside the source
\* and no two of them overlap.
C25_EditsDisjoint ==
  (Loaded /\ elide.parsed) =>
    /\ \A k \in 1..Len(elide.modifications) :
         /\ 0 <= elide.modifications[k].start
         /\ elide.modifications[k].start <= elide.modifications[k].end
         /\ elide.modifications[k].end <= Len(TheSource)
    /\ \A j, k \in 1..Len(elide.modifications) :
         j # k =>
           \/ elide.modifications[j].end <= elide.modifications[k].start
           \/ elide.modifications[k].end <= elide.modifications[j].start

\* the hook call that stored the entry the last call was served from
StoredBy ==
  pathCache.storedBy[
    pathCache.cache[CHOOSE i \in 1..Len(pathCache.cache) :
                      pathCache.cache[i].key
                        = cacheKeyOf(pathCache.last.specifier, pathCache.last.parent)].at]

\* C26: a call served from the cache is served from an entry that a call
\* with the same specifier, the same parent and the same conditions list
\* stored.
C26_HitUnderSameConditions ==
  (pathCache.last.op = "resolve" /\ ~pathCache.last.probed) =>
    /\ StoredBy.specifier = pathCache.last.specifier
    /\ StoredBy.parent = pathCache.last.parent
    /\ StoredBy.conditions = pathCache.conditions

\* The active conditions of the current request with types appended.
TypesConditions == input.context.conditions \o <<"types">>

\* The specifier and parent the custom resolver is asked about.
Normalized == normalizeFileUrl(input.specifier, input.context.parentURL)

\* The positions of a call's trace where a capability was used under the
\* conditions of the retry.
RetryEvents(call) ==
  {i \in 1..Len(call.trace) : call.trace[i].conditions = TypesConditions}

\* The retry of the async hook failed: the native resolver threw again.
AsyncRetryFailed == input.nextResolve.types.kind = "throw"

\* The retry of the sync hook failed: the custom resolver threw, or found
\* nothing under the conditions of the retry.
SyncRetryFailed ==
  \/ parentDirThrows(Normalized.parent)
  \/ engineResolve(Files, [conditionNames |-> TypesConditions, extensions |-> extensions],
                   parentDir(Normalized.parent), Normalized.specifier) = null

\* Ordinary custom resolution of the current request under its own
\* conditions: the capabilities it uses and how the hook ends after it.
OrdinaryCustomResolution ==
  LET custom == Event("custom", input.context.conditions, Normalized.parent, Normalized.specifier)
      dir == parentDir(Normalized.parent)
      path == engineResolve(Files, [conditionNames |-> input.context.conditions,
                                    extensions |-> extensions],
                            dir, Normalized.specifier)
  IN IF parentDirThrows(Normalized.parent)
     THEN [trace |-> <<custom>>, outcome |-> Throw(First.error)]
     ELSE [trace |-> << custom,
                        Event("pool", input.context.conditions, <<>>, <<>>),
                        Event("engine", input.context.conditions, dir, Normalized.specifier) >>,
           outcome |-> IF path = null THEN Throw(First.error)
                       ELSE Return(formatResolvedResult(path))]

\* After its retry a call went on with ordinary custom resolution and ended
\* as that resolution ends.
FellThrough(call) ==
  LET last == CHOOSE i \in RetryEvents(call) : \A j \in RetryEvents(call) : j <= i
  IN /\ SubSeq(call.trace, last + 1, Len(call.trace)) = OrdinaryCustomResolution.trace
     /\ call.outcome = OrdinaryCustomResolution.outcome

\* C27: a hook retries with the types condition only after a native failure
\* with the code package-path-not-exported; when the retry fails, by a throw
\* or by finding nothing, the hook goes on with custom resolution under the
\* request's own conditions, and when that finds nothing the hook throws the
\* error of the first native call.
C27_TypesRetryFallsThrough ==
  /\ (acall.pc = "done" /\ RetryEvents(acall) # {}) =>
       /\ First.kind = "throw"
       /\ First.error.code = "ERR_PACKAGE_PATH_NOT_EXPORTED"
       /\ AsyncRetryFailed => FellThrough(acall)
  /\ (scall.pc = "done" /\ RetryEvents(scall) # {}) =>
       /\ First.kind = "throw"
       /\ First.error.code = "ERR_PACKAGE_PATH_NOT_EXPORTED"
       /\ SyncRetryFailed => FellThrough(scall)

C27_Witness ==
  /\ acall.pc = "done"
  /\ scall.pc = "done"
  /\ RetryEvents(acall) # {}
  /\ RetryEvents(scall) # {}
  /\ AsyncRetryFailed
  /\ SyncRetryFailed
  /\ input.specifier = S_missing
  /\ input.context.conditions = <<"node", "require">>
  /\ Len(acall.trace) = 5
  /\ acall.outcome = Throw(First.error)
  /\ scall.outcome = Throw(First.error)

\* The current request is an entry point given as a file URL: no parent.
EntryPointFileUrl ==
  /\ StartsWith(input.specifier, FilePrefix)
  /\ input.context.parentURL = undefined

\* The file URL of the directory that holds the entry point, ending in a slash.
ContainingDirectoryUrl ==
  SubSeq(input.specifier, 1, LastIndexOf(input.specifier, "/") + 1)

\* The file name of the entry point: the decoded text after the last slash.
BareFilename == DecodePath(Slice(input.specifier, LastIndexOf(input.specifier, "/") + 1))

\* The calls of the custom resolver a hook call made.
CustomCalls(call) == {i \in 1..Len(call.trace) : call.trace[i].op = "custom"}

\* Every call of the custom resolver a hook call made was given this
\* specifier and this parent.
CalledWith(call, specifier, parent) ==
  \A i \in CustomCalls(call) :
    call.trace[i].specifier = specifier /\ call.trace[i].dir = parent

Matching ==
  {i \in 1..Len(alias.table) : matchPattern(alias.table[i].pattern, alias.specifier)}

\* The first declared pattern that matches.
FirstMatching == CHOOSE i \in Matching : \A j \in Matching : i <= j

\* The file replacement k of pattern i resolves to, or null.
Candidate(i, k) ==
  resolveAsFile(alias.files, extensions,
                joinPath(Root, substitute(alias.table[i].replacements[k],
                                          capture(alias.table[i].pattern, alias.specifier))))

\* The declared positions of the replacements of pattern i that resolve.
Resolving(i) == {k \in 1..Len(alias.table[i].replacements) : Candidate(i, k) # null}

\* C29: when a pattern matches, the lookup ends with a file one of the
\* replacements of the first matching pattern resolves to, or with nothing
\* when none of them resolves, whatever the later matching patterns would
\* resolve to.
C29_FirstMatchingPatternWins ==
  (alias.pc = "done" /\ Matching # {}) =>
    IF Resolving(FirstMatching) = {} THEN alias.path = null
    ELSE alias.path \in {Candidate(FirstMatching, k) : k \in Resolving(FirstMatching)}

C29_Witness ==
  /\ alias.pc = "done"
  /\ Cardinality(Matching) = 2
  /\ Resolving(FirstMatching) = {}
  /\ \E j \in Matching : j # FirstMatching /\ Resolving(j) # {}
  /\ alias.path = null

\* C30: the lookup ends with the file the first resolving replacement of the
\* matching pattern resolves to: one existing file, that of a later
\* replacement only when every earlier one failed.
C30_FirstResolvingReplacementWins ==
  (alias.pc = "done" /\ Matching # {} /\ Resolving(FirstMatching) # {}) =>
    LET first == CHOOSE k \in Resolving(FirstMatching) :
                   \A l \in Resolving(FirstMatching) : k <= l
    IN /\ alias.path = Candidate(FirstMatching, first)
       /\ alias.path \in alias.files

C30_Witness ==
  /\ alias.pc = "done"
  /\ Matching # {}
  /\ Resolving(FirstMatching) = {1, 2}
  /\ Candidate(FirstMatching, 1) # Candidate(FirstMatching, 2)
  /\ alias.path = Candidate(FirstMatching, 1)

(* ------------------------------------------------------------------ *)
(* Properties of the declarations and specifiers the elider passes by  *)
(* ------------------------------------------------------------------ *)

\* an edit of the pass reaches into the text of the node
Touches(node) ==
  \E k \in 1..Len(elide.modifications) :
    /\ elide.modifications[k].start < node.end
    /\ elide.modifications[k].end > node.start

\* the hook parsed the source and went through its declarations
Walked == Loaded /\ elide.parsed /\ ~elide.in.errors

\* the named specifiers of the declaration that are marked type-only
TypeSpecifiers ==
  { i \in 1..Len(TheDeclaration.named) : TheDeclaration.named[i].importKind = "type" }

\* every edit of the pass removes text between the braces of the named
\* clause and puts nothing in its place
OnlyPartialRemovals ==
  \A k \in 1..Len(elide.modifications) :
    /\ elide.modifications[k].replacement = <<>>
    /\ elide.modifications[k].start > IndexOf(TheSource, "{")
    /\ elide.modifications[k].end <= IndexOf(TheSource, "}")

\* C31: a declaration marked type-only gets no edit and its package is not
\* asked for its exports; a specifier marked type-only stays listed, and a
\* declaration that has one is rewritten by partial removal only, never
\* commented out and never stripped of its brace clause.
C31_TypeOnlyPassedBy ==
  /\ Walked =>
       \A i \in 1..Len(TheBody) :
         TheBody[i].importKind = "type" =>
           /\ ~Touches(TheBody[i])
           /\ (\A j \in 1..Len(TheBody) :
                 TheBody[j].source.value = TheBody[i].source.value
                   => TheBody[j].importKind = "type")
                => TheBody[i].source.value \notin DOMAIN elide.runtimeExportsCache
  /\ (Introspected /\ TypeSpecifiers # {}) =>
       /\ \A i \in TypeSpecifiers : Kept(TheDeclaration.named[i])
       /\ OnlyPartialRemovals

\* `import pg, { type V, T } from "pg"` loses T alone
C31_Witness ==
  /\ Introspected
  /\ TheDeclaration.default
  /\ Len(TheDeclaration.named) = 2
  /\ TypeSpecifiers = {1}
  /\ Marked = {2}
  /\ Len(elide.modifications) = 1
  /\ Squeeze(elide.returned.source.data) = Squeeze(declarationText(Unmarked))

\* the declaration imports a relative path, an absolute path or a builtin
\* module
ImportsLocalOrBuiltin(node) ==
  \/ StartsWith(node.source.value, <<".">>)
  \/ StartsWith(node.source.value, <<"/">>)
  \/ node.source.value \in {BuiltinSource, BareBuiltinSource}

\* C32: a declaration that imports a relative path, an absolute path or a
\* builtin module gets no edit, and no export record is made for what it
\* imports.
C32_LocalAndBuiltinSkipped ==
  Walked =>
    \A i \in 1..Len(TheBody) :
      ImportsLocalOrBuiltin(TheBody[i]) =>
        /\ ~Touches(TheBody[i])
        /\ TheBody[i].source.value \notin DOMAIN elide.runtimeExportsCache

\* the pass marks no specifier of the declaration: it is skipped, its
\* package cannot be imported, or none of its specifiers is marked
NothingMarked(node) ==
  \/ skipsDeclaration(node)
  \/ IntrospectedNull(node)
  \/ Len(specifiersToRemove(node, exportsSet(RuntimeModules[node.source.value]))) = 0

\* by how much the edits that end before offset `at` lengthen the source
RECURSIVE ShiftBefore(_, _)
ShiftBefore(mods, at) ==
  IF Len(mods) = 0 THEN 0
  ELSE (IF Head(mods).end <= at
        THEN Len(Head(mods).replacement) - (Head(mods).end - Head(mods).start)
        ELSE 0)
       + ShiftBefore(Tail(mods), at)

\* the text of the node stands in the returned source as it stood in the
\* original one, moved by the edits before it
StandsUnchanged(node) ==
  LET shift == ShiftBefore(elide.modifications, node.start)
  IN SliceTo(elide.returned.source.data, node.start + shift, node.end + shift)
       = SliceTo(TheSource, node.start, node.end)

Calls(c, s) ==
  /\ probe.callers[c].state = "idle"
  /\ probe'.callers[c].state # "idle"
  /\ probe'.callers[c].specifier = s

\* C34: once runtimeExportsCache holds a record for a specifier, a set of
\* names or null, no step starts an import for it, adds it to pendingImports
\* or changes the record, and a call for it returns that record at once.
C34_CacheHitReturnsAtOnce ==
  [][\A s \in DOMAIN probe.cache :
       /\ s \in DOMAIN probe'.cache
       /\ probe'.cache[s] = probe.cache[s]
       /\ probe'.started[s] = probe.started[s]
       /\ s \notin DOMAIN probe'.pending
       /\ \A c \in 1..MaxCallers :
            Calls(c, s) =>
              probe'.callers[c] = [state |-> "returned", specifier |-> s, on |-> NoProbeId,
                                   got |-> Fulfilled(probe.cache[s])]]_vars

\* after the import of ty failed, a call for ty got the cached null at once
C34_Witness ==
  /\ Pkg_types \in DOMAIN probe.cache
  /\ probe.cache[Pkg_types] = nullExports
  /\ probe.started[Pkg_types] = 1
  /\ \E c \in 1..MaxCallers :
       probe.callers[c] = [state |-> "returned", specifier |-> Pkg_types, on |-> NoProbeId,
                           got |-> Fulfilled(nullExports)]

\* C35: pendingImports holds exactly the specifiers whose import is in
\* flight, each with that import; a settled import, failed or not, has left
\* a record in runtimeExportsCache and no entry in pendingImports; so with no
\* import in flight pendingImports is empty, and no specifier is cached and
\* pending at once.
C35_PendingOnlyWhileInFlight ==
  /\ DOMAIN probe.pending = { id.specifier : id \in probe.inflight }
  /\ \A s \in DOMAIN probe.pending : probe.pending[s] \in probe.inflight
  /\ \A id \in DOMAIN probe.settled :
       /\ id.specifier \in DOMAIN probe.cache
       /\ id.specifier \notin DOMAIN probe.pending
  /\ probe.inflight = {} => DOMAIN probe.pending = {}
  /\ DOMAIN probe.cache \cap DOMAIN probe.pending = {}

\* the import of pg succeeded while that of ty, which failed before, was
\* settled already and a caller still awaits the promise of pg
C35_Witness ==
  /\ probe.inflight = {}
  /\ DOMAIN probe.pending = {}
  /\ DOMAIN probe.settled = {ProbeId(Pkg_pg, 1), ProbeId(Pkg_types, 1)}
  /\ probe.failed = {ProbeId(Pkg_types, 1)}
  /\ DOMAIN probe.cache = {Pkg_pg, Pkg_types}
  /\ WaitingOn(ProbeId(Pkg_pg, 1)) # {}


(* ------------------------------------------------------------------ *)
(* Termination of the hooks and of getRuntimeExports                   *)
(* ------------------------------------------------------------------ *)

ResolveReturns == (acall.pc # "idle") ~> (acall.pc = "done")

LoadReturns == (elide.phase = "pending") ~> (elide.phase = "returned")

GetExportsReturns ==
  \A c \in 1..MaxCallers :
    (probe.callers[c].state = "waiting") ~> (probe.callers[c].state = "returned")

C37_InstanceConfiguredAsRequested ==
  /\ \A u \in PoolCalls :
       /\ u.instance.conditionNames = u.conditions
       /\ u.instance = baseResolver => u.conditions = DefaultConditions
  /\ \A u1, u2 \in PoolCalls :
       u1.instance = u2.instance => u1.conditions = u2.conditions

(* ------------------------------------------------------------------ *)
(* The bound of the ResolverCache                                      *)
(* ------------------------------------------------------------------ *)

\* C38: whatever bound the cache was constructed with, 0 and 1 included,
\* it never holds more entries than the bound after any set, get or clear,
\* and a set removes at most one entry.
C38_NeverExceedsBound ==
  /\ Len(pathCache.cache) <= pathCache.maxSize
  /\ pathCache.last.evicted <= 1

(* ------------------------------------------------------------------ *)
(* One import and one record per specifier                             *)
(* ------------------------------------------------------------------ *)

\* the imports of a specifier that have settled: each wrote its record
Writes(s) == { id \in DOMAIN probe.settled : id.specifier = s }

\* C39: whatever the order of the calls of getRuntimeExports, together or
\* one after another, after an import that succeeded or one that failed,
\* no specifier is ever imported a second time, its record in
\* runtimeExportsCache is written once, by that import, and a record once
\* written is never removed or changed.
C39_OneProbeOneRecordForLife ==
  [][\A s \in ProbeSpecifiers :
       /\ probe'.started[s] <= 1
       /\ Cardinality({ id \in DOMAIN probe'.settled : id.specifier = s }) <= 1
       /\ s \in DOMAIN probe.cache =>
            /\ s \in DOMAIN probe'.cache
            /\ probe'.cache[s] = probe.cache[s]
            /\ probe'.started[s] = probe.started[s]
            /\ \A id \in DOMAIN probe'.settled \ DOMAIN probe.settled : id.specifier # s
       /\ (s \notin DOMAIN probe.cache /\ s \in DOMAIN probe'.cache) =>
            ProbeId(s, 1) \in DOMAIN probe'.settled \ DOMAIN probe.settled]_vars

\* both specifiers were imported once, pg with success and ty with failure;
\* since then every caller has come back, one was answered from the record
\* of pg and one from the null record of ty, and one is asking again
C39_Witness ==
  /\ \A s \in ProbeSpecifiers : probe.started[s] = 1 /\ Cardinality(Writes(s)) = 1
  /\ probe.failed = {ProbeId(Pkg_types, 1)}
  /\ probe.inflight = {}
  /\ \E c, d \in 1..MaxCallers :
       /\ probe.callers[c] = [state |-> "returned", specifier |-> Pkg_pg, on |-> NoProbeId,
                               got |-> Fulfilled(probe.cache[Pkg_pg])]
       /\ probe.callers[d] = [state |-> "returned", specifier |-> Pkg_types, on |-> NoProbeId,
                               got |-> Fulfilled(nullExports)]
       /\ \E e \in 1..MaxCallers \ {c, d} : probe.callers[e].state = "idle"
====
